---- MODULE Spec2Model ----
(***************************************************************************)
(* Model of the incremental translation engine of rosetta-mark:            *)
(*   MarkdownParser.splitIntoParagraphsWithHash   (engine/parser.ts)       *)
(*   TranslationEngine.translateIncremental       (engine/translator.ts)   *)
(*   AIService.translateParagraphs / withRetry / classifyError (ai service)*)
(*                                                                         *)
(* A document is the sequence of its lines (content.split('\n')); a        *)
(* paragraph content is the sequence of the lines joined by '\n'.          *)
(* Line numbers are 0-based as in the source.                              *)
(***************************************************************************)
EXTENDS Integers, Sequences, FiniteSets, TLC

\* ---------------------------------------------------------------- bounds
MaxLines == 3
MaxParagraphs == 3
MaxConcurrency == 2
NumVariants == 2
MaxRuns == 2

\* ------------------------------------------------------ program constants
DEFAULT_MAX_RETRIES == 3
RETRY_DELAY_MS == 1000
RATE_LIMIT_DELAY_MS == 60000
DefaultMaxConcurrency == 3
DefaultTargetLanguage == "zh-CN"

\* ------------------------------------------------------------ line model
FenceLine == "~~~"
FrontmatterMarker == "---"
BlankLine == ""
WhitespaceLine == " "
TextLines == {"a", "b"}
\* the text a hand edit of a translated document types in
EditLine == "x"
Lines == TextLines \cup {BlankLine, FenceLine, FrontmatterMarker}

\* line.trim(): a whitespace-only line trims to the empty string
Trim(line) == IF line = WhitespaceLine THEN "" ELSE line

SeqsUpTo(S, n) == UNION {[1..k -> S] : k \in 0..n}

\* content.split('\n') always yields at least one line
Docs == SeqsUpTo(Lines, MaxLines) \ {<<>>}

\* crypto md5 digest, taken as collision-free on the modelled contents
calculateHash(content) == <<"md5">> \o content

\* ---------------------------------------------------------------- parser
\* variant: the hash is taken over the first line of the paragraph only
ParsedParagraph_HashOfFirstLine(content, type, startLine, endLine) ==
  [content |-> content, type |-> type, hash |-> calculateHash(<<content[1]>>),
   startLine |-> startLine, endLine |-> endLine]

ParsedParagraph(content, type, startLine, endLine) ==
  [content |-> content, type |-> type, hash |-> calculateHash(content),
   startLine |-> startLine, endLine |-> endLine]

ParserInit ==
  [paragraphs |-> <<>>, currentParagraph |-> <<>>, startLine |-> 0,
   inCodeBlock |-> FALSE, codeBlockStart |-> 0]

\* variant: the text collected so far is not pushed
Flushed_Dropped(st, i) == st.paragraphs

\* if (currentParagraph.length > 0) paragraphs.push({content, type: 'text', ...})
Flushed(st, i) ==
  IF Len(st.currentParagraph) > 0
  THEN Append(st.paragraphs,
         ParsedParagraph(st.currentParagraph, "text", st.startLine, i - 1))
  ELSE st.paragraphs

\* variant: a fence line is not recognised
StartsWithFence_Never(trimmedLine) == FALSE

\* trimmedLine.startsWith(fence marker); "~~~" stands for the three-backtick marker
StartsWithFence(trimmedLine) == trimmedLine = FenceLine

\* variant: the last segment is always text
FinalType_Text(inCodeBlock) == "text"

\* type: inCodeBlock ? 'code' : 'text' of the segment pushed after the loop
FinalType(inCodeBlock) == IF inCodeBlock THEN "code" ELSE "text"

\* one iteration of the line loop; i is the 0-based line index
ParserStep(st, lines, i) ==
  LET line == lines[i + 1]
      trimmedLine == Trim(line)
      flushed == Flushed(st, i)
  IN
  IF StartsWithFence(trimmedLine) /\ st.inCodeBlock
  THEN \* closing fence
       [st EXCEPT !.paragraphs =
                     Append(st.paragraphs,
                       ParsedParagraph(Append(st.currentParagraph, line), "code",
                                       st.codeBlockStart, i)),
                  !.currentParagraph = <<>>,
                  !.inCodeBlock = FALSE,
                  !.startLine = i + 1]
  ELSE IF StartsWithFence(trimmedLine)
  THEN \* opening fence: flush the text so far, then the in-code branch
       [st EXCEPT !.paragraphs = flushed,
                  !.currentParagraph = <<lines[i + 1]>>,
                  !.inCodeBlock = TRUE,
                  !.codeBlockStart = i]
  ELSE IF st.inCodeBlock
  THEN LET cur1 == IF Len(st.currentParagraph) = 0
                   THEN <<lines[st.codeBlockStart + 1]>>
                   ELSE st.currentParagraph
           cur2 == IF i # st.codeBlockStart THEN Append(cur1, line) ELSE cur1
       IN [st EXCEPT !.currentParagraph = cur2]
  ELSE IF trimmedLine = ""
  THEN [st EXCEPT !.paragraphs = flushed,
                  !.currentParagraph = <<>>,
                  !.startLine = i + 1]
  ELSE [st EXCEPT !.startLine = IF Len(st.currentParagraph) = 0 THEN i ELSE @,
                  !.currentParagraph = Append(@, line)]

RECURSIVE ParserLoop(_, _, _)
ParserLoop(st, lines, i) ==
  IF i >= Len(lines) THEN st ELSE ParserLoop(ParserStep(st, lines, i), lines, i + 1)

splitIntoParagraphsWithHash(lines) ==
  LET st == ParserLoop(ParserInit, lines, 0)
  IN IF Len(st.currentParagraph) > 0
     THEN Append(st.paragraphs,
            ParsedParagraph(st.currentParagraph, FinalType(st.inCodeBlock),
                            st.startLine, Len(lines) - 1))
     ELSE st.paragraphs

\* paragraphs.join('\n\n'): consecutive contents separated by one empty line
RECURSIVE joinParagraphs(_)
joinParagraphs(ps) ==
  IF Len(ps) = 0 THEN <<>>
  ELSE IF Len(ps) = 1 THEN ps[1]
  ELSE ps[1] \o <<BlankLine>> \o joinParagraphs(Tail(ps))

\* paragraphs.map(p => p.content).join('\n\n')
joinParsedParagraphs(ps) == joinParagraphs([i \in 1..Len(ps) |-> ps[i].content])

\* ------------------------------------------- parser, splitIntoParagraphs
\* the characters of a content that matter to split(/\n\n+/): one token per
\* non-empty line and one NewlineToken per '\n' between two lines
NewlineToken == "<LF>"

RECURSIVE Tokens(_)
Tokens(lines) ==
  IF Len(lines) = 0 THEN <<>>
  ELSE (IF lines[1] = "" THEN <<>> ELSE <<lines[1]>>)
       \o (IF Len(lines) > 1 THEN <<NewlineToken>> \o Tokens(Tail(lines)) ELSE <<>>)

\* index of the first token at or after i that is not a NewlineToken
RECURSIVE SkipNewlines(_, _)
SkipNewlines(tokens, i) ==
  IF i <= Len(tokens) /\ tokens[i] = NewlineToken THEN SkipNewlines(tokens, i + 1) ELSE i

\* the regular expression /\n\n+/ matches at token i
IsSeparatorAt(tokens, i) ==
  /\ tokens[i] = NewlineToken
  /\ i + 1 <= Len(tokens)
  /\ tokens[i + 1] = NewlineToken

\* content.split(/\n\n+/): the pieces between the maximal runs of two or more '\n'
RECURSIVE SplitOnBreaks(_, _, _, _)
SplitOnBreaks(tokens, i, piece, pieces) ==
  IF i > Len(tokens) THEN Append(pieces, piece)
  ELSE IF IsSeparatorAt(tokens, i)
  THEN SplitOnBreaks(tokens, SkipNewlines(tokens, i), <<>>, Append(pieces, piece))
  ELSE SplitOnBreaks(tokens, i + 1, Append(piece, tokens[i]), pieces)

\* p.trim().length > 0
TrimIsNonEmpty(piece) ==
  \E j \in 1..Len(piece) : piece[j] # NewlineToken /\ Trim(piece[j]) # ""

\* the lines of a piece ('\n' ends a line; two line tokens are never adjacent)
RECURSIVE LinesOf(_)
LinesOf(piece) ==
  IF Len(piece) = 0 THEN <<"">>
  ELSE IF piece[1] = NewlineToken THEN <<"">> \o LinesOf(Tail(piece))
  ELSE IF Len(piece) = 1 THEN <<piece[1]>>
  ELSE <<piece[1]>> \o LinesOf(Tail(Tail(piece)))

splitIntoParagraphs(lines) ==
  LET pieces == SelectSeq(SplitOnBreaks(Tokens(lines), 1, <<>>, <<>>), TrimIsNonEmpty)
  IN [j \in 1..Len(pieces) |-> LinesOf(pieces[j])]

\* ------------------------------- parser, extractTextForTranslation / restore
\* a content as the characters the regular expressions of the extraction see:
\* single characters, with the front-matter marker "---", the line feed and a
\* text of the form of a placeholder each taken as one character
\* "~" stands for the backtick, as in FenceLine
Backtick == "~"
Dollar == "$"
Ampersand == "&"
Quote == "'"

\* `__CODE_BLOCK_${placeholderIndex}__` and `__INLINE_CODE_${placeholderIndex}__`
CodeBlockPlaceholder(placeholderIndex) == "__CODE_BLOCK_" \o ToString(placeholderIndex) \o "__"
InlineCodePlaceholder(placeholderIndex) == "__INLINE_CODE_" \o ToString(placeholderIndex) \o "__"

\* content.match(/^---\n([\s\S]*?)\n---\n/): the index of the last character
\* of the match, 0 without a match
FrontmatterMatchEnd(content) ==
  LET ends == {p \in 3..(Len(content) - 2) :
                 /\ content[p] = NewlineToken
                 /\ content[p + 1] = FrontmatterMarker
                 /\ content[p + 2] = NewlineToken}
  IN IF Len(content) >= 2 /\ content[1] = FrontmatterMarker /\ content[2] = NewlineToken
        /\ ends # {}
     THEN (CHOOSE p \in ends : \A q \in ends : p <= q) + 2
     ELSE 0

\* three backticks start at index i
IsFenceAt(content, i) ==
  /\ i + 2 <= Len(content)
  /\ content[i] = Backtick /\ content[i + 1] = Backtick /\ content[i + 2] = Backtick

\* /```[\s\S]*?```/ tried at index i: the index of the last character of the
\* shortest match, 0 without a match
CodeBlockMatchEnd(content, i) ==
  LET closes == {j \in (i + 3)..Len(content) : IsFenceAt(content, j)}
  IN IF IsFenceAt(content, i) /\ closes # {}
     THEN (CHOOSE j \in closes : \A j2 \in closes : j <= j2) + 2
     ELSE 0

\* /`[^`\n]+`/ tried at index i: the index of the closing backtick, 0 without
\* a match
InlineCodeMatchEnd(content, i) ==
  LET stops == {j \in (i + 1)..Len(content) : content[j] \in {Backtick, NewlineToken}}
      stop == CHOOSE j \in stops : \A j2 \in stops : j <= j2
  IN IF content[i] = Backtick /\ stops # {} /\ content[stop] = Backtick /\ stop >= i + 2
     THEN stop
     ELSE 0

\* content.replace(/```[\s\S]*?```/g, ...) from index i on; acc holds the
\* text produced so far, the entries set in codeBlocks and placeholderIndex
RECURSIVE ReplaceCodeBlocks(_, _, _)
ReplaceCodeBlocks(content, i, acc) ==
  IF i > Len(content) THEN acc
  ELSE IF CodeBlockMatchEnd(content, i) > 0
  THEN LET placeholder == CodeBlockPlaceholder(acc.placeholderIndex)
           match == SubSeq(content, i, CodeBlockMatchEnd(content, i))
       IN ReplaceCodeBlocks(content, CodeBlockMatchEnd(content, i) + 1,
            [text |-> Append(acc.text, placeholder),
             codeBlocks |-> Append(acc.codeBlocks, [placeholder |-> placeholder, code |-> match]),
             placeholderIndex |-> acc.placeholderIndex + 1])
  ELSE ReplaceCodeBlocks(content, i + 1, [acc EXCEPT !.text = Append(@, content[i])])

\* translatableText.replace(/`[^`\n]+`/g, ...) from index i on
RECURSIVE ReplaceInlineCode(_, _, _)
ReplaceInlineCode(content, i, acc) ==
  IF i > Len(content) THEN acc
  ELSE IF InlineCodeMatchEnd(content, i) > 0
  THEN LET placeholder == InlineCodePlaceholder(acc.placeholderIndex)
           match == SubSeq(content, i, InlineCodeMatchEnd(content, i))
       IN ReplaceInlineCode(content, InlineCodeMatchEnd(content, i) + 1,
            [text |-> Append(acc.text, placeholder),
             codeBlocks |-> Append(acc.codeBlocks, [placeholder |-> placeholder, code |-> match]),
             placeholderIndex |-> acc.placeholderIndex + 1])
  ELSE ReplaceInlineCode(content, i + 1, [acc EXCEPT !.text = Append(@, content[i])])

\* ExtractedContent; codeBlocks lists the entries of the Map in insertion
\* order, frontmatter is empty for null
extractTextForTranslation(content) ==
  LET frontmatterEnd == FrontmatterMatchEnd(content)
      rest == SubSeq(content, frontmatterEnd + 1, Len(content))
      blocks == ReplaceCodeBlocks(rest, 1,
                  [text |-> <<>>, codeBlocks |-> <<>>, placeholderIndex |-> 0])
      inline == ReplaceInlineCode(blocks.text, 1, [blocks EXCEPT !.text = <<>>])
  IN [translatableText |-> inline.text,
      codeBlocks |-> inline.codeBlocks,
      frontmatter |-> SubSeq(content, 1, frontmatterEnd)]

\* the replacement string of String.prototype.replace, from index i on: "$$"
\* inserts a dollar sign, "$&" the matched text, "$`" the text before the
\* match and "$'" the text after it
RECURSIVE ExpandReplacement(_, _, _, _, _)
ExpandReplacement(replacement, i, before, matched, after) ==
  IF i > Len(replacement) THEN <<>>
  ELSE IF replacement[i] = Dollar /\ i < Len(replacement)
          /\ replacement[i + 1] \in {Dollar, Ampersand, Backtick, Quote}
  THEN (IF replacement[i + 1] = Dollar THEN <<Dollar>>
        ELSE IF replacement[i + 1] = Ampersand THEN matched
        ELSE IF replacement[i + 1] = Backtick THEN before
        ELSE after)
       \o ExpandReplacement(replacement, i + 2, before, matched, after)
  ELSE <<replacement[i]>> \o ExpandReplacement(replacement, i + 1, before, matched, after)

\* result.replace(placeholder, code) with a string pattern: the first
\* occurrence only
ReplaceFirst(result, placeholder, code) ==
  LET found == {i \in 1..Len(result) : result[i] = placeholder}
      at == CHOOSE i \in found : \A i2 \in found : i <= i2
      before == SubSeq(result, 1, at - 1)
      after == SubSeq(result, at + 1, Len(result))
  IN IF found = {} THEN result
     ELSE before \o ExpandReplacement(code, 1, before, <<placeholder>>, after) \o after

\* for (const [placeholder, code] of extracted.codeBlocks) from entry n on
RECURSIVE RestoreLoop(_, _, _)
RestoreLoop(result, codeBlocks, n) ==
  IF n > Len(codeBlocks) THEN result
  ELSE RestoreLoop(ReplaceFirst(result, codeBlocks[n].placeholder, codeBlocks[n].code),
                   codeBlocks, n + 1)

\* if (extracted.frontmatter) result = extracted.frontmatter + result
RestoreFrontmatter(result, frontmatter) ==
  IF Len(frontmatter) > 0 THEN frontmatter \o result ELSE result

restoreCodeBlocks(translatedText, extracted) ==
  RestoreFrontmatter(RestoreLoop(translatedText, extracted.codeBlocks, 1),
                     extracted.frontmatter)

\* a line with an inline code span, and the characters of the lines of a
\* content: those of each line, with a line feed between two lines
InlineCodeLine == "~c~"
LineChars(line) ==
  IF line = BlankLine THEN <<>>
  ELSE IF line = FenceLine THEN <<Backtick, Backtick, Backtick>>
  ELSE IF line = InlineCodeLine THEN <<Backtick, "c", Backtick>>
  ELSE <<line>>

RECURSIVE Chars(_)
Chars(lines) ==
  IF Len(lines) = 0 THEN <<>>
  ELSE LineChars(lines[1])
       \o (IF Len(lines) > 1 THEN <<NewlineToken>> \o Chars(Tail(lines)) ELSE <<>>)

\* a line too long to write out, and content.length: the characters of the
\* lines and one line feed between two lines
LongLine == "L"
LongLineLength == 399998
LineLength(line) == IF line = LongLine THEN LongLineLength ELSE Len(LineChars(line))

RECURSIVE ContentLength(_)
ContentLength(lines) ==
  IF Len(lines) = 0 THEN 0
  ELSE LineLength(lines[1])
       + (IF Len(lines) > 1 THEN 1 + ContentLength(Tail(lines)) ELSE 0)

\* Math.ceil(content.length / 4)
estimateTokens(length) == (length + 3) \div 4

\* const maxTokens = 100000
MaxTokens == 100000

checkDocumentSize(content) ==
  [valid |-> ~(estimateTokens(ContentLength(content)) > MaxTokens),
   estimatedTokens |-> estimateTokens(ContentLength(content))]

\* ------------------------------------------------- translate capability
\* generateText(...) on a paragraph: the provider may answer differently on
\* each call; variant v of the answer to text is tagged in its first line, and
\* the answer numbered 0 is the empty text
VariantTag == [v \in 1..NumVariants |-> IF v = 1 THEN "t1" ELSE IF v = 2 THEN "t2" ELSE "t3"]
TranslateOutput(text, v) == IF v = 0 THEN <<>> ELSE <<VariantTag[v]>> \o text

\* TokenUsage; an absent tokenUsage (undefined) has present = FALSE
NoUsage == [present |-> FALSE, prompt |-> 0, completion |-> 0, total |-> 0]
TokenUsage(prompt, completion, total) ==
  [present |-> TRUE, prompt |-> prompt, completion |-> completion, total |-> total]

\* convertTokenUsage(usage) of the answer's usage: the first variant comes
\* with token counts that grow with the text, the second with no usage, any
\* further one with counts of zero
ProviderUsage(text, v) ==
  IF v = 1 THEN TokenUsage(Len(text), Len(text) + 1, 2 * Len(text) + 1)
  ELSE IF v = 2 THEN NoUsage
  ELSE TokenUsage(0, 0, 0)

\* an error message is the set of the keywords of classifyError it contains
Messages == {{"429"}, {"401"}, {"network"}, {"abort"}, {"network", "abort"}, {}}
Includes(lowerMessage, keyword) == keyword \in lowerMessage

\* variant: every TranslationError is constructed retryable
TranslationError_Retryable(code, retryable) == [code |-> code, retryable |-> TRUE]

TranslationError(code, retryable) == [code |-> code, retryable |-> retryable]

classifyError(lowerMessage) ==
  IF Includes(lowerMessage, "rate limit") \/ Includes(lowerMessage, "429")
  THEN TranslationError("RATE_LIMIT", TRUE)
  ELSE IF Includes(lowerMessage, "unauthorized") \/ Includes(lowerMessage, "401")
          \/ Includes(lowerMessage, "invalid api key") \/ Includes(lowerMessage, "authentication")
  THEN TranslationError("AUTH_ERROR", FALSE)
  ELSE IF Includes(lowerMessage, "network") \/ Includes(lowerMessage, "econnrefused")
          \/ Includes(lowerMessage, "timeout") \/ Includes(lowerMessage, "enotfound")
  THEN TranslationError("NETWORK_ERROR", TRUE)
  ELSE IF Includes(lowerMessage, "abort") \/ Includes(lowerMessage, "cancel")
  THEN TranslationError("CANCELLED", FALSE)
  ELSE TranslationError("UNKNOWN", TRUE)

RECURSIVE Pow2(_)
Pow2(n) == IF n = 0 THEN 1 ELSE 2 * Pow2(n - 1)

\* variant: the exponent of the backoff starts at one
RetryDelay_FromTwo(err, attempt) ==
  IF err.code = "RATE_LIMIT" THEN RATE_LIMIT_DELAY_MS ELSE RETRY_DELAY_MS * Pow2(attempt + 1)

\* the backoff after failed attempt number attempt (0-based)
RetryDelay(err, attempt) ==
  IF err.code = "RATE_LIMIT" THEN RATE_LIMIT_DELAY_MS ELSE RETRY_DELAY_MS * Pow2(attempt)

\* --------------------------------------------------------- cache planning
ParagraphMapping(sourceContent, translatedContent, sourceHash) ==
  [sourceContent |-> sourceContent, translatedContent |-> translatedContent,
   sourceHash |-> sourceHash]

\* variant: the map is keyed by the hash of the translated text
HasExisting_ByTranslated(existingParagraphs, hash) ==
  \E j \in 1..Len(existingParagraphs) :
    calculateHash(existingParagraphs[j].translatedContent) = hash

\* existingHashMap after the set() loop: a later entry replaces an earlier one
HasExisting(existingParagraphs, hash) ==
  \E j \in 1..Len(existingParagraphs) : existingParagraphs[j].sourceHash = hash

\* variant: the first entry with the hash is kept instead of the last
ExistingHashMapGet_First(existingParagraphs, hash) ==
  LET js == {j \in 1..Len(existingParagraphs) : existingParagraphs[j].sourceHash = hash}
  IN existingParagraphs[CHOOSE j \in js : \A j2 \in js : j <= j2]

ExistingHashMapGet(existingParagraphs, hash) ==
  LET js == {j \in 1..Len(existingParagraphs) : existingParagraphs[j].sourceHash = hash}
  IN existingParagraphs[CHOOSE j \in js : \A j2 \in js : j2 <= j]

\* variant: the type of the paragraph is not looked at
IsPassThrough_Never(paragraph) == FALSE

\* the paragraph is copied through without translation
IsPassThrough(paragraph) == paragraph.type = "code"

\* variant: the cache is not consulted when the units are collected
NeedsTranslation_Always(paragraph, existingParagraphs) == ~IsPassThrough(paragraph)

\* the paragraph has to be sent to translateParagraphs
NeedsTranslation(paragraph, existingParagraphs) ==
  /\ ~IsPassThrough(paragraph)
  /\ ~HasExisting(existingParagraphs, paragraph.hash)

\* resultParagraphs after the planning loop (translatedContent '' where pending)
PlanEntry(paragraph, existingParagraphs) ==
  IF IsPassThrough(paragraph)
  THEN ParagraphMapping(paragraph.content, paragraph.content, paragraph.hash)
  ELSE IF HasExisting(existingParagraphs, paragraph.hash)
  THEN ExistingHashMapGet(existingParagraphs, paragraph.hash)
  ELSE ParagraphMapping(paragraph.content, <<>>, paragraph.hash)

PlanResultParagraphs(currentParagraphs, existingParagraphs) ==
  [i \in 1..Len(currentParagraphs) |-> PlanEntry(currentParagraphs[i], existingParagraphs)]

\* 0-based indices of the paragraphs to translate, in document order
RECURSIVE PlanToTranslate(_, _, _)
PlanToTranslate(currentParagraphs, existingParagraphs, i) ==
  IF i >= Len(currentParagraphs) THEN <<>>
  ELSE (IF NeedsTranslation(currentParagraphs[i + 1], existingParagraphs)
        THEN <<i>> ELSE <<>>)
       \o PlanToTranslate(currentParagraphs, existingParagraphs, i + 1)

\* ------------------------------------------------------- reverseTranslate
\* savedParagraphs[i] is undefined past the end of the saved mapping
HasSaved(savedParagraphs, i) == i < Len(savedParagraphs)

\* variant: a paragraph past the end of the saved mapping is not looked at
IsModified_SavedOnly(current, savedParagraphs, i) ==
  HasSaved(savedParagraphs, i) /\ current[i + 1] # savedParagraphs[i + 1].translatedContent

\* !savedParagraph || currentParagraphs[i] !== savedParagraph.translatedContent
IsModified(current, savedParagraphs, i) ==
  \/ ~HasSaved(savedParagraphs, i)
  \/ current[i + 1] # savedParagraphs[i + 1].translatedContent

\* the loop that collects modifiedIndices (0-based), from index i on
RECURSIVE ModifiedIndices(_, _, _)
ModifiedIndices(current, savedParagraphs, i) ==
  IF i >= Len(current) THEN <<>>
  ELSE (IF IsModified(current, savedParagraphs, i) THEN <<i>> ELSE <<>>)
       \o ModifiedIndices(current, savedParagraphs, i + 1)

\* variant: the first paragraphs of the document are sent, whatever the indices
TextsToTranslate_FromStart(current, modifiedIndices) ==
  [j \in 1..Len(modifiedIndices) |-> current[j]]

\* modifiedIndices.map(i => currentParagraphs[i])
TextsToTranslate(current, modifiedIndices) ==
  [j \in 1..Len(modifiedIndices) |-> current[modifiedIndices[j] + 1]]

ReverseTranslationResult(modifiedIndices, translatedParagraphs, newSourceContent) ==
  [modifiedIndices |-> modifiedIndices, translatedParagraphs |-> translatedParagraphs,
   newSourceContent |-> newSourceContent]
NoReverseResult == ReverseTranslationResult(<<>>, <<>>, <<>>)

\* p.sourceHash || calculateHash(p.sourceContent): an empty hash is falsy
WithSourceHash(p) ==
  IF p.sourceHash = <<>> THEN [p EXCEPT !.sourceHash = calculateHash(p.sourceContent)] ELSE p

\* variant: the hash of the rebuilt entry is taken over the edited text
RebuiltEntry_HashOfEdited(content, edited) ==
  ParagraphMapping(content, edited, calculateHash(edited))

\* the mapping entry written for a modified paragraph
RebuiltEntry(content, edited) ==
  ParagraphMapping(content, edited, calculateHash(content))

\* the loop over translatedParagraphs, from its j-th element (1-based) on:
\* st holds sourceParagraphContents and newParagraphs
RECURSIVE RebuildLoop(_, _, _, _)
RebuildLoop(translatedParagraphs, current, j, st) ==
  IF j > Len(translatedParagraphs) THEN st
  ELSE LET index == translatedParagraphs[j].index
           content == translatedParagraphs[j].content
           sources == IF index < Len(st.sourceParagraphContents)
                      THEN [st.sourceParagraphContents EXCEPT ![index + 1] = content]
                      ELSE Append(st.sourceParagraphContents, content)
           mapping == IF index < Len(st.newParagraphs)
                      THEN [st.newParagraphs EXCEPT
                              ![index + 1] = RebuiltEntry(content, current[index + 1])]
                      ELSE Append(st.newParagraphs,
                                  RebuiltEntry(content, current[index + 1]))
       IN RebuildLoop(translatedParagraphs, current, j + 1,
                      [sourceParagraphContents |-> sources, newParagraphs |-> mapping])

\* what reverseTranslate returns once translateParagraphs returned res
ReverseRebuild(current, savedParagraphs, modifiedIndices, res) ==
  LET translatedParagraphs ==
        [j \in 1..Len(modifiedIndices) |->
           [index |-> modifiedIndices[j], content |-> res[j].translatedText]]
      st == RebuildLoop(translatedParagraphs, current, 1,
              [sourceParagraphContents |->
                 [j \in 1..Len(savedParagraphs) |-> savedParagraphs[j].sourceContent],
               newParagraphs |->
                 [j \in 1..Len(savedParagraphs) |-> WithSourceHash(savedParagraphs[j])]])
  IN [result |-> ReverseTranslationResult(modifiedIndices, translatedParagraphs,
                                          joinParagraphs(st.sourceParagraphContents)),
      newParagraphs |-> st.newParagraphs]

\* variant: the rebuild works on savedParagraphs itself
NewParagraphsIsSaved_Always(modifiedIndices) == TRUE

\* newParagraphs is the array savedParagraphs itself (no modified paragraph)
\* and not the copy savedParagraphs.map(...) makes for the rebuild
NewParagraphsIsSaved(modifiedIndices) == Len(modifiedIndices) = 0

\* what reverseTranslate returns when no paragraph is modified
ReverseUnmodified(savedParagraphs) ==
  [result |-> ReverseTranslationResult(<<>>, <<>>,
                joinParagraphs([j \in 1..Len(savedParagraphs) |->
                                  savedParagraphs[j].sourceContent])),
   newParagraphs |-> savedParagraphs]

\* ------------------------------------------------------------------ state
VARIABLES
  doc,                   \* lines of the document given to translateIncremental
  existing,              \* options.existingParagraphs (the prior mapping)
  maxConcurrency,        \* options.maxConcurrency
  hasSignal,             \* an AbortSignal was passed in the options
  aborted,               \* signal.aborted
  caller,                \* "direct": translateParagraphs called on its own;
                         \* "incremental": through translateIncremental;
                         \* "reverse": through reverseTranslate
  pc,                    \* "idle", "running", "done" (returned), "failed" (threw)
  currentParagraphs,     \* the segments of doc, once translateIncremental parsed it
  prevParagraphs,        \* the segments of the document of the previous pass
  paragraphsToTranslate, \* 0-based indices of the paragraphs to translate
  resultParagraphs,      \* resultParagraphs of translateIncremental
  outcome,               \* the other fields of the IncrementalTranslationResult
  paragraphs,            \* the texts given to translateParagraphs
  tpState,               \* translateParagraphs: "none", "awaiting", "returned", "thrown"
  batchStart,            \* loop variable i of translateParagraphs
  results,               \* results array of translateParagraphs
  tpError,               \* code of the error translateParagraphs threw
  unit,                  \* per paragraph: state of its translate()/withRetry call
  settleOrder,           \* history: units in the order their translate() settled
  run,                   \* number of the current translateIncremental pass
  prevDoc,               \* document of the previous pass; for reverseTranslate,
                         \* the translated document before the hand edit
  targetLanguage,        \* config.targetLanguage
  sourceLanguage,        \* the sourceLanguage argument of reverseTranslate
  reverseResult,         \* the ReverseTranslationResult apart from newParagraphs
  callerMapping,         \* the contents of the array passed as existingParagraphs /
                         \* savedParagraphs, as the caller finds it
  masking,               \* a content, its ExtractedContent and what was restored from it
  command,               \* the command that runs the pass and the error it threw
  store,                 \* the files of the workspace and .rosetta-mark/metadata.json
  ops,                   \* per document: the FileSystemManager call on it, its
                         \* position and what it holds in memory
  currentTranslationController, \* the module variable of extension.ts: the
                         \* invocation whose AbortController it holds, 0 for null
  invocations            \* the command invocations: name, position, the state of
                         \* the AbortController each created

\* the state of the extension around the engine
hostVars == <<store, ops, currentTranslationController, invocations>>

vars == <<doc, existing, maxConcurrency, hasSignal, aborted, caller, pc,
          currentParagraphs, prevParagraphs, paragraphsToTranslate, resultParagraphs, outcome, paragraphs, tpState,
          batchStart, results, tpError, unit, settleOrder, run, prevDoc,
          targetLanguage, sourceLanguage, reverseResult, callerMapping, masking, command, hostVars>>

engineVars == <<doc, existing, maxConcurrency, hasSignal, caller, run, prevDoc,
                prevParagraphs, targetLanguage, sourceLanguage, masking, command, hostVars>>

\* the variables of the passes
passVars == <<doc, existing, maxConcurrency, hasSignal, aborted, caller, pc,
              currentParagraphs, prevParagraphs, paragraphsToTranslate, resultParagraphs,
              outcome, paragraphs, tpState, batchStart, results, tpError, unit,
              settleOrder, run, prevDoc, targetLanguage, sourceLanguage, reverseResult,
              callerMapping>>

\* the lists given to translateParagraphs on its own: n texts, alternately
\* "a" and "b" (distinct neighbours, equal texts two positions apart)
TextAt(k) == IF k % 2 = 1 THEN <<"a">> ELSE <<"b">>
ParagraphLists == {[k \in 1..n |-> TextAt(k)] : n \in 0..MaxParagraphs}

\* languages of a document; NoLanguage where the operation takes none
Languages == {"en", "zh-CN"}
NoLanguage == ""

EditKinds == {"replace", "delete", "break", "paragraph"}
\* the longest translated document of a saved mapping, plus an insertion
MaxDocLines == 3 * MaxParagraphs + 1

NoCommand == [name |-> "none", error |-> ""]
NoExtracted == [translatableText |-> <<>>, codeBlocks |-> <<>>, frontmatter |-> <<>>]
NoMasking == [pc |-> "idle", content |-> <<>>, extracted |-> NoExtracted,
              restored |-> <<>>, restoredTwice |-> <<>>]
IdleUnit == [st |-> "idle", attempt |-> 0, invoked |-> 0, text |-> <<>>,
             usage |-> NoUsage, code |-> "", delay |-> 0]
NoResult == [filled |-> FALSE, translatedText |-> <<>>, tokenUsage |-> NoUsage]
NoOutcome == [translatedText |-> <<>>, changedParagraphs |-> 0, reusedParagraphs |-> 0,
              tokenUsage |-> NoUsage]

\* ----------------------------------------- withRetry / translateParagraphs
\* variant: the retry loop does not look at the signal
RetryCheckAborted_Never(ab) == FALSE

\* signal?.aborted at the top of each withRetry iteration
RetryCheckAborted(ab) == ab

\* signal?.aborted at the top of each batch iteration
BatchCheckAborted(ab) == ab

\* iteration number attempt of the withRetry loop up to its first await
WithRetryAttempt(u, attempt, ab) ==
  IF RetryCheckAborted(ab)
  THEN [u EXCEPT !.st = "rejected", !.attempt = attempt, !.code = "CANCELLED", !.delay = 0]
  ELSE [u EXCEPT !.st = "inCall", !.attempt = attempt, !.invoked = @ + 1,
                 !.code = "", !.delay = 0]

\* variant: the catch block sleeps after the last attempt as well
WithRetryCatch_OneMore(u, lowerMessage) ==
  LET lastError == classifyError(lowerMessage)
  IN IF ~lastError.retryable
     THEN [u EXCEPT !.st = "rejected", !.code = lastError.code]
     ELSE IF u.attempt < DEFAULT_MAX_RETRIES
     THEN [u EXCEPT !.st = "sleeping", !.code = lastError.code,
                    !.delay = RetryDelay(lastError, u.attempt)]
     ELSE [u EXCEPT !.st = "rejected", !.code = lastError.code]

\* the catch block of withRetry after the operation of unit u failed
WithRetryCatch(u, lowerMessage) ==
  LET lastError == classifyError(lowerMessage)
  IN IF ~lastError.retryable
     THEN [u EXCEPT !.st = "rejected", !.code = lastError.code]
     ELSE IF u.attempt < DEFAULT_MAX_RETRIES - 1
     THEN [u EXCEPT !.st = "sleeping", !.code = lastError.code,
                    !.delay = RetryDelay(lastError, u.attempt)]
     ELSE \* the loop ends: throw lastError
          [u EXCEPT !.st = "rejected", !.code = lastError.code]

\* variant: the slice takes one paragraph too many
BatchEnd_OffByOne(i, mc) == i + mc + 1

\* Array.prototype.slice clamps an index to 0..len and counts a negative
\* one from the end
SliceIndex(n, len) ==
  IF n < 0 THEN (IF len + n > 0 THEN len + n ELSE 0)
  ELSE IF n < len THEN n ELSE len

\* paragraphs.slice(i, i + maxConcurrency), as 1-based unit numbers
BatchEnd(i, mc) == i + mc
Batch(ps, mc, i) ==
  {k \in 1..Len(ps) : /\ k - 1 >= SliceIndex(i, Len(ps))
                      /\ k - 1 < SliceIndex(BatchEnd(i, mc), Len(ps))}

\* variant: the index within the batch is used as the global index
GlobalIndex_BatchLocal(i, batchIndex) == batchIndex

\* const globalIndex = i + batchIndex
GlobalIndex(i, batchIndex) == i + batchIndex

\* results[index] = result for every entry of batchResults
StoreBatch(res, ps, mc, i, units) ==
  [k \in 1..Len(ps) |->
     IF \E k2 \in Batch(ps, mc, i) : GlobalIndex(i, (k2 - 1) - i) + 1 = k
     THEN LET k2 == CHOOSE k2 \in Batch(ps, mc, i) : GlobalIndex(i, (k2 - 1) - i) + 1 = k
          IN [filled |-> TRUE, translatedText |-> units[k2].text,
              tokenUsage |-> units[k2].usage]
     ELSE res[k]]

Tp(state, i, res, error, units) ==
  [state |-> state, batchStart |-> i, results |-> res, error |-> error, unit |-> units]

\* the batch loop of translateParagraphs from iteration i up to its next await
LoopFrom(ps, mc, ab, i, res, units) ==
  IF ~(i < Len(ps)) THEN Tp("returned", i, res, "", units)
  ELSE IF BatchCheckAborted(ab) THEN Tp("thrown", i, res, "CANCELLED", units)
  ELSE LET started == [k \in 1..Len(ps) |->
                         IF k \in Batch(ps, mc, i)
                         THEN WithRetryAttempt(units[k], 0, ab) ELSE units[k]]
           failed == {k \in Batch(ps, mc, i) : started[k].st = "rejected"}
       IN IF failed # {}
          THEN Tp("thrown", i, res,
                  started[CHOOSE k \in failed : \A k2 \in failed : k <= k2].code, started)
          ELSE Tp("awaiting", i, res, "", started)

\* variant: the batch is awaited with allSettled-like semantics
BatchRejects_Never(state, ps, mc, i, units, k) == FALSE

\* a rejection of a unit of the awaited batch rejects Promise.all
BatchRejects(state, ps, mc, i, units, k) ==
  state = "awaiting" /\ k \in Batch(ps, mc, i) /\ units[k].st = "rejected"

\* reaction of translateParagraphs after the translate() of unit k settled
OnSettle(ps, mc, ab, state, i, res, error, units, k) ==
  IF BatchRejects(state, ps, mc, i, units, k)
  THEN Tp("thrown", i, res, units[k].code, units)
  ELSE IF state = "awaiting" /\ \A j \in Batch(ps, mc, i) : units[j].st = "resolved"
  THEN LoopFrom(ps, mc, ab, i + mc, StoreBatch(res, ps, mc, i, units), units)
  ELSE Tp(state, i, res, error, units)

\* -------------------------------------------- translateIncremental, end
\* variant: the i-th result is stored at position i
FillIndex_Sequential(toTranslate, i) == i

\* position in resultParagraphs that receives results[i] (both 0-based)
FillIndex(toTranslate, i) == toTranslate[i + 1]

\* resultParagraphs[index].translatedContent = results[i].translatedText
FillResults(rp, toTranslate, res) ==
  [j \in 1..Len(rp) |->
     IF \E i \in 0..(Len(toTranslate) - 1) : FillIndex(toTranslate, i) = j - 1
     THEN LET i == CHOOSE i \in 0..(Len(toTranslate) - 1) :
                     /\ FillIndex(toTranslate, i) = j - 1
                     /\ \A i2 \in 0..(Len(toTranslate) - 1) :
                          FillIndex(toTranslate, i2) = j - 1 => i2 <= i
          IN [rp[j] EXCEPT !.translatedContent = res[i + 1].translatedText]
     ELSE rp[j]]

\* the entry of existingParagraphs (1-based, 0: none) whose object the
\* planning loop pushes into resultParagraphs for this paragraph
SharedEntry(paragraph, existingParagraphs) ==
  IF ~IsPassThrough(paragraph) /\ HasExisting(existingParagraphs, paragraph.hash)
  THEN LET js == {j \in 1..Len(existingParagraphs) :
                    existingParagraphs[j].sourceHash = paragraph.hash}
       IN CHOOSE j \in js : \A j2 \in js : j2 <= j
  ELSE 0

\* the entries of existingParagraphs after the fill loop: an assignment to
\* resultParagraphs[index].translatedContent writes through to a shared entry
CallerAfterFill(existingParagraphs, parsed, toTranslate, res) ==
  [j \in 1..Len(existingParagraphs) |->
     LET writes == {i \in 0..(Len(toTranslate) - 1) :
                      SharedEntry(parsed[FillIndex(toTranslate, i) + 1],
                                  existingParagraphs) = j}
     IN IF writes = {} THEN existingParagraphs[j]
        ELSE [existingParagraphs[j] EXCEPT !.translatedContent =
                res[(CHOOSE i \in writes : \A i2 \in writes : i2 <= i) + 1].translatedText]]

\* variant: the fill loop adds up the total field only
AddUsage_TotalOnly(total, usage) ==
  IF usage.present
  THEN [total EXCEPT !.total = total.total + usage.total]
  ELSE total

\* if (result.tokenUsage) { totalTokenUsage.prompt += ...; ... }
AddUsage(total, usage) ==
  IF usage.present
  THEN [total EXCEPT !.prompt = total.prompt + usage.prompt,
                     !.completion = total.completion + usage.completion,
                     !.total = total.total + usage.total]
  ELSE total

\* totalTokenUsage after the fill loop went through res[i + 1 ..]
RECURSIVE TotalTokenUsage(_, _, _)
TotalTokenUsage(total, res, i) ==
  IF i >= Len(res) THEN total
  ELSE TotalTokenUsage(AddUsage(total, res[i + 1].tokenUsage), res, i + 1)

\* the IncrementalTranslationResult apart from its paragraphs
IncrementalOutcome(rp, toTranslate, res) ==
  LET totalTokenUsage == TotalTokenUsage(TokenUsage(0, 0, 0), res, 0)
  IN [translatedText |-> joinParagraphs([j \in 1..Len(rp) |-> rp[j].translatedContent]),
      changedParagraphs |-> Len(toTranslate),
      reusedParagraphs |-> Len(rp) - Len(toTranslate),
      tokenUsage |-> IF totalTokenUsage.total > 0 THEN totalTokenUsage ELSE NoUsage]

\* units whose translate() resolved or rejected in this step, in index order
Settled(u) == u.st \in {"resolved", "rejected"}

RECURSIVE NewlySettled(_, _, _)
NewlySettled(old, new, k) ==
  IF k > Len(new) THEN <<>>
  ELSE (IF Settled(new[k]) /\ ~Settled(old[k]) THEN <<k>> ELSE <<>>)
       \o NewlySettled(old, new, k + 1)

\* the step's effect on translateParagraphs and on the caller awaiting it
Apply(tp, toTranslate, rp, oldUnits) ==
  /\ tpState' = tp.state
  /\ batchStart' = tp.batchStart
  /\ results' = tp.results
  /\ tpError' = tp.error
  /\ unit' = tp.unit
  /\ settleOrder' = settleOrder \o NewlySettled(oldUnits, tp.unit, 1)
  /\ pc' = IF tp.state = "returned" THEN "done"
           ELSE IF tp.state = "thrown" THEN "failed" ELSE "running"
  /\ IF caller = "incremental" /\ tp.state = "returned" /\ tpState # "returned"
     THEN LET filled == FillResults(rp, toTranslate, tp.results)
          IN /\ resultParagraphs' = filled
             /\ outcome' = IncrementalOutcome(filled, toTranslate, tp.results)
             /\ reverseResult' = reverseResult
             /\ callerMapping' = CallerAfterFill(existing, currentParagraphs,
                                                 toTranslate, tp.results)
     ELSE IF caller = "reverse" /\ tp.state = "returned" /\ tpState # "returned"
     THEN LET rebuilt == ReverseRebuild(splitIntoParagraphs(doc), existing,
                                        toTranslate, tp.results)
          IN /\ resultParagraphs' = rebuilt.newParagraphs
             /\ reverseResult' = rebuilt.result
             /\ outcome' = outcome
             /\ callerMapping' = IF NewParagraphsIsSaved(toTranslate)
                                 THEN rebuilt.newParagraphs ELSE existing
     ELSE /\ resultParagraphs' = rp
          /\ outcome' = outcome
          /\ reverseResult' = reverseResult
          /\ callerMapping' = callerMapping

\* ---------------------------------------------------------------- actions
\* aiService.translateParagraphs(paragraphs, {signal, maxConcurrency}) is called
TranslateParagraphsCall ==
  /\ caller = "direct" /\ pc = "idle"
  /\ Apply(LoopFrom(paragraphs, maxConcurrency, aborted, 0,
                    [k \in 1..Len(paragraphs) |-> NoResult], unit),
           paragraphsToTranslate, resultParagraphs, unit)
  /\ UNCHANGED <<engineVars, aborted, currentParagraphs, paragraphsToTranslate, paragraphs>>

\* engine.translateIncremental(content, {existingParagraphs, maxConcurrency}) is
\* called: parsing, planning and, on a cache miss, the first batch
TranslateIncrementalCall ==
  /\ caller = "incremental" /\ pc = "idle"
  /\ LET parsed == splitIntoParagraphsWithHash(doc)
         toTranslate == PlanToTranslate(parsed, existing, 0)
         rp == PlanResultParagraphs(parsed, existing)
         textsToTranslate == [i \in 1..Len(toTranslate) |->
                                parsed[toTranslate[i] + 1].content]
         units == [k \in 1..Len(textsToTranslate) |-> IdleUnit]
     IN /\ currentParagraphs' = parsed
        /\ paragraphsToTranslate' = toTranslate
        /\ paragraphs' = textsToTranslate
        /\ IF Len(toTranslate) > 0
           THEN Apply(LoopFrom(textsToTranslate, maxConcurrency, aborted, 0,
                               [k \in 1..Len(textsToTranslate) |-> NoResult], units),
                      toTranslate, rp, units)
           ELSE /\ resultParagraphs' = rp
                /\ outcome' = IncrementalOutcome(rp, toTranslate, <<>>)
                /\ pc' = "done"
                /\ unit' = units
                /\ UNCHANGED <<tpState, batchStart, results, tpError, settleOrder,
                               reverseResult, callerMapping>>
  /\ UNCHANGED <<engineVars, aborted>>

\* the provider call of unit k returns variant v of the translation
CallSucceeds(k, v) ==
  /\ unit[k].st = "inCall"
  /\ LET units == [unit EXCEPT ![k].st = "resolved",
                               ![k].text = TranslateOutput(paragraphs[k], v),
                               ![k].usage = ProviderUsage(paragraphs[k], v)]
     IN Apply(OnSettle(paragraphs, maxConcurrency, aborted, tpState, batchStart,
                       results, tpError, units, k),
              paragraphsToTranslate, resultParagraphs, unit)
  /\ UNCHANGED <<engineVars, aborted, currentParagraphs, paragraphsToTranslate, paragraphs>>

\* the provider call of unit k fails with an error of message lowerMessage
CallFails(k, lowerMessage) ==
  /\ unit[k].st = "inCall"
  /\ LET units == [unit EXCEPT ![k] = WithRetryCatch(unit[k], lowerMessage)]
     IN Apply(OnSettle(paragraphs, maxConcurrency, aborted, tpState, batchStart,
                       results, tpError, units, k),
              paragraphsToTranslate, resultParagraphs, unit)
  /\ UNCHANGED <<engineVars, aborted, currentParagraphs, paragraphsToTranslate, paragraphs>>

\* the backoff sleep of unit k ends: next iteration of the withRetry loop
Wake(k) ==
  /\ unit[k].st = "sleeping"
  /\ LET units == [unit EXCEPT ![k] = WithRetryAttempt(unit[k], unit[k].attempt + 1, aborted)]
     IN Apply(OnSettle(paragraphs, maxConcurrency, aborted, tpState, batchStart,
                       results, tpError, units, k),
              paragraphsToTranslate, resultParagraphs, unit)
  /\ UNCHANGED <<engineVars, aborted, currentParagraphs, paragraphsToTranslate, paragraphs>>

\* the AbortController of the operation is aborted
Cancel ==
  /\ hasSignal /\ ~aborted
  /\ pc \in {"idle", "running"}
  /\ aborted' = TRUE
  /\ UNCHANGED <<engineVars, pc, currentParagraphs, paragraphsToTranslate,
                 resultParagraphs, outcome, reverseResult, callerMapping,
                 paragraphs, tpState, batchStart, results, tpError, unit, settleOrder>>

\* the caller stores the returned mapping, the document is edited in one line
\* (or left as it is) and translated again with the stored mapping
Rerun(pos, line) ==
  /\ caller = "incremental" /\ pc = "done" /\ run < MaxRuns
  /\ pos \in 1..Len(doc)
  /\ prevDoc' = doc
  /\ prevParagraphs' = currentParagraphs
  /\ currentParagraphs' = <<>>
  /\ doc' = [doc EXCEPT ![pos] = line]
  /\ existing' = resultParagraphs
  /\ callerMapping' = resultParagraphs
  /\ run' = run + 1
  /\ pc' = "idle"
  /\ paragraphsToTranslate' = <<>>
  /\ resultParagraphs' = <<>>
  /\ outcome' = NoOutcome
  /\ paragraphs' = <<>>
  /\ tpState' = "none"
  /\ batchStart' = 0
  /\ results' = <<>>
  /\ tpError' = ""
  /\ unit' = <<>>
  /\ settleOrder' = <<>>
  /\ UNCHANGED <<maxConcurrency, hasSignal, aborted, caller, targetLanguage,
                 sourceLanguage, reverseResult, masking, command, hostVars>>

\* the translated document is edited by hand before it is reverse translated:
\* line pos is replaced or deleted, or a blank line (a paragraph break) or a
\* new paragraph is inserted before it (pos = Len(doc) + 1: at the end)
EditedDocument(lines, kind, pos) ==
  LET before == SubSeq(lines, 1, pos - 1)
      from == SubSeq(lines, pos, Len(lines))
  IN IF kind = "replace" THEN before \o <<EditLine>> \o Tail(from)
     ELSE IF kind = "delete" THEN before \o Tail(from)
     ELSE IF kind = "break" THEN before \o <<BlankLine>> \o from
     ELSE IF pos <= Len(lines) THEN before \o <<EditLine, BlankLine>> \o from
     ELSE before \o <<BlankLine, EditLine>>

EditTranslation(kind, pos) ==
  /\ caller = "reverse" /\ pc = "idle" /\ doc = prevDoc
  /\ pos \in 1..(Len(doc) + 1)
  /\ kind \in {"replace", "delete"} => pos <= Len(doc)
  /\ doc' = EditedDocument(doc, kind, pos)
  /\ doc' # doc
  /\ UNCHANGED <<existing, maxConcurrency, hasSignal, aborted, caller, pc,
                 currentParagraphs, prevParagraphs, paragraphsToTranslate,
                 resultParagraphs, outcome, paragraphs, tpState, batchStart, results,
                 tpError, unit, settleOrder, run, prevDoc, targetLanguage,
                 sourceLanguage, reverseResult, callerMapping, masking, command, hostVars>>

\* engine.reverseTranslate(currentTranslatedContent, savedParagraphs,
\* sourceLanguage) is called: splitting, comparison and, if a paragraph is
\* modified, the first batch
ReverseTranslateCall ==
  /\ caller = "reverse" /\ pc = "idle"
  /\ LET current == splitIntoParagraphs(doc)
         modifiedIndices == ModifiedIndices(current, existing, 0)
         texts == TextsToTranslate(current, modifiedIndices)
         units == [k \in 1..Len(texts) |-> IdleUnit]
     IN /\ currentParagraphs' = current
        /\ paragraphsToTranslate' = modifiedIndices
        /\ paragraphs' = texts
        /\ IF Len(modifiedIndices) = 0
           THEN /\ resultParagraphs' = ReverseUnmodified(existing).newParagraphs
                /\ reverseResult' = ReverseUnmodified(existing).result
                /\ pc' = "done"
                /\ unit' = units
                /\ callerMapping' = ReverseUnmodified(existing).newParagraphs
                /\ UNCHANGED <<outcome, tpState, batchStart, results, tpError,
                               settleOrder>>
           ELSE Apply(LoopFrom(texts, maxConcurrency, aborted, 0,
                               [k \in 1..Len(texts) |-> NoResult], units),
                      modifiedIndices, resultParagraphs, units)
  /\ UNCHANGED <<engineVars, aborted>>

\* passes of one chain of forward and reverse passes
MaxPasses == MaxRuns + 1

\* a content given to a pass as a document: '' is the one empty line
AsDocument(content) == IF content = <<>> THEN <<BlankLine>> ELSE content

\* the state of a pass that has not been called yet
PassReset ==
  /\ pc' = "idle"
  /\ currentParagraphs' = <<>>
  /\ paragraphsToTranslate' = <<>>
  /\ resultParagraphs' = <<>>
  /\ outcome' = NoOutcome
  /\ reverseResult' = NoReverseResult
  /\ paragraphs' = <<>>
  /\ tpState' = "none"
  /\ batchStart' = 0
  /\ results' = <<>>
  /\ tpError' = ""
  /\ unit' = <<>>
  /\ settleOrder' = <<>>

\* the translated document of the pass that has returned: the text a forward
\* pass returned, or the edited translation a reverse pass was given
TranslatedDocument ==
  IF caller = "incremental" THEN AsDocument(outcome.translatedText) ELSE doc

\* the source document after the pass that has returned: the document a
\* forward pass was given, or the newSourceContent a reverse pass returned
SourceDocument ==
  IF caller = "incremental" THEN doc ELSE AsDocument(reverseResult.newSourceContent)

\* the caller stores the returned mapping and the translation is opened for a
\* reverse pass with it
ReversePass ==
  /\ caller \in {"incremental", "reverse"} /\ pc = "done" /\ run < MaxPasses
  /\ caller' = "reverse"
  /\ existing' = resultParagraphs
  /\ callerMapping' = resultParagraphs
  /\ doc' = TranslatedDocument
  /\ prevDoc' = TranslatedDocument
  /\ prevParagraphs' = <<>>
  /\ run' = run + 1
  /\ PassReset
  /\ UNCHANGED <<maxConcurrency, hasSignal, aborted, targetLanguage, sourceLanguage,
                 masking, command, hostVars>>

\* the caller stores the mapping and the source a reverse pass returned, and
\* that source is translated again with the stored mapping
ForwardPass ==
  /\ caller = "reverse" /\ pc = "done" /\ run < MaxPasses
  /\ caller' = "incremental"
  /\ existing' = resultParagraphs
  /\ callerMapping' = resultParagraphs
  /\ doc' = SourceDocument
  /\ prevDoc' = doc
  /\ prevParagraphs' = <<>>
  /\ run' = run + 1
  /\ PassReset
  /\ UNCHANGED <<maxConcurrency, hasSignal, aborted, targetLanguage, sourceLanguage,
                 masking, command, hostVars>>

\* ------------------------------------------------------ FileSystemManager
\* the documents of the workspace, by their path relative to the workspace
\* root; the translation of p is .rosetta-mark/p, and p is also its key in
\* the translations of metadata.json
SourcePaths == {"a.md", "b.md"}

NoFile == [exists |-> FALSE, content |-> <<>>]
File(content) == [exists |-> TRUE, content |-> content]

\* a property a JSON object does not have
NoHash == <<>>
NoTranslation ==
  [present |-> FALSE, sourceHash |-> NoHash, sourcePath |-> "", sourceLanguage |-> "",
   paragraphs |-> <<>>]
NoHashes == [p \in SourcePaths |-> NoHash]
NoTranslations == [p \in SourcePaths |-> NoTranslation]

\* interface TranslationMetadata
TranslationMetadata(sourceHash, sourcePath, language, mapping) ==
  [present |-> TRUE, sourceHash |-> sourceHash, sourcePath |-> sourcePath,
   sourceLanguage |-> language, paragraphs |-> mapping]

\* interface ExtendedMetadata
ExtendedMetadata(hashes, translations) == [hashes |-> hashes, translations |-> translations]

\* the parsed metadata.json: in the old format the object is the hash table
\* itself (top), in the new format it has the properties hashes and translations
NoMetadataFile ==
  [exists |-> FALSE, hasHashes |-> FALSE, top |-> NoHashes, hashes |-> NoHashes,
   translations |-> NoTranslations]
LegacyMetadataFile(hashes) ==
  [exists |-> TRUE, hasHashes |-> FALSE, top |-> hashes, hashes |-> NoHashes,
   translations |-> NoTranslations]

\* JSON.stringify(extended) written to metadata.json
MetadataFile(extended) ==
  [exists |-> TRUE, hasHashes |-> TRUE, top |-> NoHashes, hashes |-> extended.hashes,
   translations |-> extended.translations]

\* variant: only the old format is understood
readMetadata_LegacyOnly(file) == IF ~file.exists THEN NoHashes ELSE file.top

\* FileSystemManager.readMetadata: the hash table of either format
readMetadata(file) ==
  IF ~file.exists THEN NoHashes
  ELSE IF file.hasHashes THEN file.hashes
  ELSE file.top

\* FileSystemManager.readExtendedMetadata
readExtendedMetadata(file) ==
  IF ~file.exists THEN ExtendedMetadata(NoHashes, NoTranslations)
  ELSE IF ~file.hasHashes THEN ExtendedMetadata(file.top, NoTranslations)
  ELSE ExtendedMetadata(file.hashes, file.translations)

\* FileSystemManager.needsTranslation(sourcePath, content)
needsTranslation(st, sourcePath, content) ==
  LET hash == calculateHash(content)
      metadata == readMetadata(st.metadata)
      translationExists == st.translation[sourcePath].exists
  IN IF ~translationExists THEN TRUE ELSE metadata[sourcePath] # hash

\* saveTranslation: metadata[relativePath] = hash on what readMetadata returned
SaveTranslationHashes(file, sourcePath, content) ==
  [readMetadata(file) EXCEPT ![sourcePath] = calculateHash(content)]

\* writeMetadata: extended.hashes = metadata on what readExtendedMetadata returned
WriteMetadataExtended(file, metadata) ==
  [readExtendedMetadata(file) EXCEPT !.hashes = metadata]

\* saveTranslationWithMapping: the hash and the mapping of the document are
\* set on what readExtendedMetadata returned
SaveWithMappingExtended(file, sourcePath, content, language, mapping) ==
  LET hash == calculateHash(content)
      extended == readExtendedMetadata(file)
  IN [extended EXCEPT
        !.hashes[sourcePath] = hash,
        !.translations[sourcePath] =
           TranslationMetadata(hash, sourcePath, language, mapping)]

\* updateParagraphMapping where the translation has metadata
UpdateMappingExtended(file, translationPath, mapping, newSourceContent) ==
  LET extended == readExtendedMetadata(file)
      metadata == extended.translations[translationPath]
      sourceHash == calculateHash(newSourceContent)
  IN [extended EXCEPT
        !.translations[translationPath] =
           [metadata EXCEPT !.paragraphs = mapping, !.sourceHash = sourceHash],
        !.hashes[metadata.sourcePath] = sourceHash]

\* a call on the document that is not running; recorded is the hash the
\* calls on the document wrote last
NoOp(recorded) ==
  [name |-> "none", st |-> "idle", content |-> <<>>, translated |-> <<>>,
   paragraphs |-> <<>>, sourceLanguage |-> "", metadata |-> NoHashes,
   extended |-> ExtendedMetadata(NoHashes, NoTranslations), recorded |-> recorded]

FsCalls == {"saveTranslation", "saveTranslationWithMapping", "updateParagraphMapping"}

\* no call of the FileSystemManager is between two of its awaits
Quiet == \A p \in SourcePaths : ops[p].st \in {"idle", "returned"}

\* one of the three calls is made for document p, up to its first await
FsCall(p, name, content, translated, mapping, language) ==
  /\ ops[p].st \in {"idle", "returned"}
  /\ name \in FsCalls
  /\ ops' = [ops EXCEPT ![p] =
               [NoOp(ops[p].recorded) EXCEPT
                  !.name = name,
                  !.st = IF name = "updateParagraphMapping"
                         THEN "readExtended" ELSE "writeFile",
                  !.content = content, !.translated = translated,
                  !.paragraphs = mapping, !.sourceLanguage = language]]
  /\ UNCHANGED <<passVars, masking, command, store, currentTranslationController,
                 invocations>>

\* await fs.writeFile(translationPath, translatedContent)
WriteTranslationFile(p) ==
  /\ ops[p].st = "writeFile"
  /\ store' = [store EXCEPT !.translation[p] = File(ops[p].translated)]
  /\ ops' = [ops EXCEPT ![p].st = IF ops[p].name = "saveTranslation"
                                  THEN "readMetadata" ELSE "readExtended"]
  /\ UNCHANGED <<passVars, masking, command, currentTranslationController, invocations>>

\* saveTranslation: await this.readMetadata(), then the new hash is set
ReadMetadata(p) ==
  /\ ops[p].st = "readMetadata"
  /\ ops' = [ops EXCEPT
               ![p].metadata = SaveTranslationHashes(store.metadata, p, ops[p].content),
               ![p].st = "readExtended"]
  /\ UNCHANGED <<passVars, masking, command, store, currentTranslationController,
                 invocations>>

\* await this.readExtendedMetadata() and the assignments that follow it;
\* updateParagraphMapping returns here when the translation has no metadata
ReadExtendedMetadata(p) ==
  /\ ops[p].st = "readExtended"
  /\ LET o == ops[p]
         found == readExtendedMetadata(store.metadata).translations[p].present
     IN ops' =
          [ops EXCEPT ![p] =
             IF o.name = "saveTranslation"
             THEN [o EXCEPT !.extended = WriteMetadataExtended(store.metadata, o.metadata),
                            !.st = "write"]
             ELSE IF o.name = "saveTranslationWithMapping"
             THEN [o EXCEPT !.extended =
                              SaveWithMappingExtended(store.metadata, p, o.content,
                                                      o.sourceLanguage, o.paragraphs),
                            !.st = "write"]
             ELSE IF found
             THEN [o EXCEPT !.extended =
                              UpdateMappingExtended(store.metadata, p, o.paragraphs,
                                                    o.content),
                            !.st = "write"]
             ELSE [o EXCEPT !.st = "returned"]]
  /\ UNCHANGED <<passVars, masking, command, store, currentTranslationController,
                 invocations>>

\* await fs.writeFile(this.metadataPath, JSON.stringify(extended)); the call returns
WriteMetadataFile(p) ==
  /\ ops[p].st = "write"
  /\ store' = [store EXCEPT !.metadata = MetadataFile(ops[p].extended)]
  /\ ops' = [ops EXCEPT ![p].st = "returned",
                        ![p].recorded = calculateHash(ops[p].content)]
  /\ UNCHANGED <<passVars, masking, command, currentTranslationController, invocations>>

\* a workspace in which nothing was translated
NoStore ==
  [source |-> [p \in SourcePaths |-> NoFile],
   translation |-> [p \in SourcePaths |-> NoFile],
   metadata |-> NoMetadataFile]

\* the extension is idle: no call on the store, no command invoked
InitHost ==
  /\ store = NoStore
  /\ ops = [p \in SourcePaths |-> NoOp(NoHash)]
  /\ currentTranslationController = 0
  /\ invocations = <<>>

\* --------------------------------------------------------- specifications
InitCommon ==
  /\ aborted = FALSE
  /\ pc = "idle"
  /\ currentParagraphs = <<>>
  /\ prevParagraphs = <<>>
  /\ paragraphsToTranslate = <<>>
  /\ resultParagraphs = <<>>
  /\ outcome = NoOutcome
  /\ tpState = "none"
  /\ batchStart = 0
  /\ results = <<>>
  /\ tpError = ""
  /\ settleOrder = <<>>
  /\ run = 1
  /\ targetLanguage = DefaultTargetLanguage
  /\ reverseResult = NoReverseResult
  /\ masking = NoMasking

\* translateParagraphs called on a list of texts
Init ==
  /\ InitCommon
  /\ InitHost
  /\ command = NoCommand
  /\ caller = "direct"
  /\ doc = <<BlankLine>>
  /\ prevDoc = <<BlankLine>>
  /\ existing = <<>>
  /\ callerMapping = existing
  /\ paragraphs \in ParagraphLists
  /\ unit = [k \in 1..Len(paragraphs) |-> IdleUnit]
  /\ maxConcurrency \in 1..MaxConcurrency
  /\ hasSignal = TRUE
  /\ sourceLanguage = NoLanguage

Next ==
  \/ TranslateParagraphsCall
  \/ \E k \in 1..Len(paragraphs) : \E v \in 1..NumVariants : CallSucceeds(k, v)
  \/ \E k \in 1..Len(paragraphs) : \E m \in Messages : CallFails(k, m)
  \/ \E k \in 1..Len(paragraphs) : Wake(k)
  \/ Cancel

Spec == Init /\ [][Next]_vars

\* mappings a caller may hold before the first pass
SeedContents == {<<"a">>, <<FenceLine, "a">>}
SeedMappings ==
  {<<>>} \cup {<<ParagraphMapping(c, <<"old">>, calculateHash(c))>> : c \in SeedContents}

\* translateIncremental on a document, then again after an edit
InitIncr ==
  /\ InitCommon
  /\ InitHost
  /\ command = NoCommand
  /\ caller = "incremental"
  /\ doc \in Docs
  /\ prevDoc = doc
  /\ existing \in SeedMappings
  /\ callerMapping = existing
  /\ paragraphs = <<>>
  /\ unit = <<>>
  /\ maxConcurrency = DefaultMaxConcurrency
  /\ hasSignal = FALSE
  /\ sourceLanguage = NoLanguage

\* the failures considered in the passes: one that is retried, one that is not
IncrMessages == {{"network"}, {"401"}}

NextIncr ==
  \/ TranslateIncrementalCall
  \/ \E k \in 1..Len(paragraphs) : \E v \in 1..NumVariants : CallSucceeds(k, v)
  \/ \E k \in 1..Len(paragraphs) : \E m \in IncrMessages : CallFails(k, m)
  \/ \E k \in 1..Len(paragraphs) : Wake(k)
  \/ \E pos \in 1..MaxLines : \E line \in Lines : Rerun(pos, line)

SpecIncr == InitIncr /\ [][NextIncr]_vars

\* the mappings reverseTranslate is given: n entries of a forward pass, the
\* first one possibly saved without sourceHash, the last one possibly a code
\* block with an empty line or an entry written by an earlier reverse pass
SavedEntry(k, kind) ==
  IF kind = "code"
  THEN ParagraphMapping(<<FenceLine, BlankLine, FenceLine>>,
                        <<FenceLine, BlankLine, FenceLine>>,
                        calculateHash(<<FenceLine, BlankLine, FenceLine>>))
  ELSE IF kind = "legacy"
  THEN ParagraphMapping(TextAt(k), TranslateOutput(TextAt(k), 1), <<>>)
  ELSE IF kind = "edited"
  THEN RebuiltEntry(TranslateOutput(TextAt(k - 1), 1), TextAt(k - 1))
  ELSE ParagraphMapping(TextAt(k), TranslateOutput(TextAt(k), 1), calculateHash(TextAt(k)))

SavedMappings ==
  {[k \in 1..n |-> SavedEntry(k, "text")] : n \in 0..MaxParagraphs}
  \cup {[k \in 1..n |-> SavedEntry(k, IF k = n THEN "code" ELSE "text")] :
          n \in 1..MaxParagraphs}
  \cup {[k \in 1..n |-> SavedEntry(k, IF k = 1 THEN "legacy" ELSE "text")] :
          n \in 1..MaxParagraphs}
  \cup {[k \in 1..n |-> SavedEntry(k, IF k = n THEN "edited" ELSE "text")] :
          n \in 2..MaxParagraphs}

\* reverseTranslate on the translated document of a saved mapping, possibly
\* after a hand edit
InitReverse ==
  /\ InitCommon
  /\ InitHost
  /\ command = NoCommand
  /\ caller = "reverse"
  /\ existing \in SavedMappings
  /\ callerMapping = existing
  /\ doc = joinParagraphs([k \in 1..Len(existing) |-> existing[k].translatedContent])
  /\ prevDoc = doc
  /\ paragraphs = <<>>
  /\ unit = <<>>
  /\ maxConcurrency \in 1..MaxConcurrency
  /\ hasSignal = FALSE
  /\ sourceLanguage \in Languages

\* the failure considered in the reverse pass, the chains and the commands:
\* one that is not retried
ReverseMessages == {{"401"}}

NextReverse ==
  \/ \E kind \in EditKinds : \E pos \in 1..MaxDocLines : EditTranslation(kind, pos)
  \/ ReverseTranslateCall
  \/ \E k \in 1..Len(paragraphs) : \E v \in 1..NumVariants : CallSucceeds(k, v)
  \/ \E k \in 1..Len(paragraphs) : \E m \in ReverseMessages : CallFails(k, m)

SpecReverse == InitReverse /\ [][NextReverse]_vars

\* forward and reverse passes in any order, each with the mapping the pass
\* before it returned, starting without a mapping. A provider call succeeds
\* with the first variant or fails for good and ends the chain, the units are
\* dispatched one at a time,
\* the first document has no front matter and a hand edit touches one of the
\* first three lines of the translation.
ChainDocs == SeqsUpTo(TextLines \cup {BlankLine, FenceLine}, MaxLines) \ {<<>>}
ChainVariants == {1}
ChainEditPositions == 1..3

InitChain ==
  /\ InitCommon
  /\ InitHost
  /\ command = NoCommand
  /\ caller = "incremental"
  /\ doc \in ChainDocs
  /\ prevDoc = doc
  /\ existing = <<>>
  /\ callerMapping = existing
  /\ paragraphs = <<>>
  /\ unit = <<>>
  /\ maxConcurrency = 1
  /\ hasSignal = FALSE
  /\ sourceLanguage = "en"

NextChain ==
  \/ TranslateIncrementalCall
  \/ ReverseTranslateCall
  \/ \E k \in 1..Len(paragraphs) : \E v \in ChainVariants : CallSucceeds(k, v)
  \/ \E k \in 1..Len(paragraphs) : \E m \in ReverseMessages : CallFails(k, m)
  \/ \E kind \in EditKinds : \E pos \in ChainEditPositions : EditTranslation(kind, pos)
  \/ ReversePass
  \/ ForwardPass

SpecChain == InitChain /\ [][NextChain]_vars

\* the parser on its own: a document is split into segments and the segments
\* are joined again. The documents are longer than those of the passes and
\* have lines of white space.
MaxParseLines == 5
ParseDocs == SeqsUpTo(TextLines \cup {BlankLine, WhitespaceLine, FenceLine}, MaxParseLines) \ {<<>>}

InitParse ==
  /\ InitCommon
  /\ InitHost
  /\ command = NoCommand
  /\ caller = "parser"
  /\ doc \in ParseDocs
  /\ prevDoc = doc
  /\ existing = <<>>
  /\ callerMapping = existing
  /\ paragraphs = <<>>
  /\ unit = <<>>
  /\ maxConcurrency = 1
  /\ hasSignal = FALSE
  /\ sourceLanguage = NoLanguage

\* parser.splitIntoParagraphsWithHash(content)
SplitCall ==
  /\ caller = "parser" /\ pc = "idle"
  /\ currentParagraphs' = splitIntoParagraphsWithHash(doc)
  /\ pc' = "split"
  /\ UNCHANGED <<engineVars, aborted, paragraphsToTranslate, resultParagraphs, outcome,
                 paragraphs, tpState, batchStart, results, tpError, unit, settleOrder,
                 reverseResult, callerMapping>>

\* parser.joinParsedParagraphs(paragraphs) on the segments of the split; the
\* joined content takes the place of the document, which is kept in prevDoc
JoinCall ==
  /\ caller = "parser" /\ pc = "split"
  /\ doc' = AsDocument(joinParsedParagraphs(currentParagraphs))
  /\ prevDoc' = doc
  /\ pc' = "joined"
  /\ UNCHANGED <<existing, maxConcurrency, hasSignal, caller, run, prevParagraphs,
                 targetLanguage, sourceLanguage, aborted, currentParagraphs,
                 paragraphsToTranslate, resultParagraphs, outcome, paragraphs, tpState,
                 batchStart, results, tpError, unit, settleOrder, reverseResult,
                 callerMapping, masking, command, hostVars>>

NextParse ==
  \/ SplitCall
  \/ JoinCall

SpecParse == InitParse /\ [][NextParse]_vars

\* the extraction on its own: a content is masked, the masked text is
\* restored as it is, and the restored text is restored once more. A content
\* is made of up to MaxSpans pieces: plain text, a line feed, a backtick, an
\* inline code span, a fenced code block, a front matter, a text of the form
\* of a placeholder.
MaxSpans == 3
Spans ==
  { <<"x">>, <<NewlineToken>>, <<Backtick>>,
    <<Backtick, "x", Backtick>>,
    <<Backtick, Dollar, Backtick>>,
    <<Backtick, Backtick, Backtick, "x", NewlineToken, Backtick, Backtick, Backtick>>,
    <<Backtick, Backtick, Backtick, Dollar, Dollar, Backtick, Backtick, Backtick>>,
    <<FrontmatterMarker, NewlineToken, "k", NewlineToken, FrontmatterMarker, NewlineToken>>,
    <<CodeBlockPlaceholder(0)>> }

RECURSIVE Flatten(_)
Flatten(spans) == IF Len(spans) = 0 THEN <<>> ELSE spans[1] \o Flatten(Tail(spans))

Contents == {Flatten(spans) : spans \in SeqsUpTo(Spans, MaxSpans)}

InitExtract ==
  /\ InitCommon
  /\ InitHost
  /\ command = NoCommand
  /\ caller = "extract"
  /\ doc = <<BlankLine>>
  /\ prevDoc = doc
  /\ existing = <<>>
  /\ callerMapping = existing
  /\ paragraphs = <<>>
  /\ unit = <<>>
  /\ maxConcurrency = 1
  /\ hasSignal = FALSE
  /\ sourceLanguage = NoLanguage

\* parser.extractTextForTranslation(content)
ExtractCall(content) ==
  /\ caller = "extract" /\ masking.pc = "idle"
  /\ masking' = [masking EXCEPT !.pc = "extracted",
                                !.content = content,
                                !.extracted = extractTextForTranslation(content)]
  /\ UNCHANGED <<passVars, command, hostVars>>

\* parser.restoreCodeBlocks(extracted.translatableText, extracted)
RestoreCall ==
  /\ caller = "extract" /\ masking.pc = "extracted"
  /\ masking' = [masking EXCEPT !.pc = "restored",
                                !.restored = restoreCodeBlocks(masking.extracted.translatableText,
                                                               masking.extracted)]
  /\ UNCHANGED <<passVars, command, hostVars>>

\* parser.restoreCodeBlocks(restored, extracted) on the text restored before
RestoreAgainCall ==
  /\ caller = "extract" /\ masking.pc = "restored"
  /\ masking' = [masking EXCEPT !.pc = "restoredTwice",
                                !.restoredTwice = restoreCodeBlocks(masking.restored,
                                                                    masking.extracted)]
  /\ UNCHANGED <<passVars, command, hostVars>>

NextExtract ==
  \/ \E content \in Contents : ExtractCall(content)
  \/ RestoreCall
  \/ RestoreAgainCall

SpecExtract == InitExtract /\ [][NextExtract]_vars

\* a forward pass on documents with inline code: text lines, lines with an
\* inline code span and empty lines, no mapping saved; a provider call
\* succeeds, possibly with an empty answer, or fails for good
MaskDocs == SeqsUpTo({"a", InlineCodeLine, BlankLine}, MaxLines) \ {<<>>}

InitMask ==
  /\ InitCommon
  /\ InitHost
  /\ command = NoCommand
  /\ caller = "incremental"
  /\ doc \in MaskDocs
  /\ prevDoc = doc
  /\ existing = <<>>
  /\ callerMapping = existing
  /\ paragraphs = <<>>
  /\ unit = <<>>
  /\ maxConcurrency \in 1..MaxConcurrency
  /\ hasSignal = FALSE
  /\ sourceLanguage = NoLanguage

NextMask ==
  \/ TranslateIncrementalCall
  \/ \E k \in 1..Len(paragraphs) : \E v \in 0..NumVariants : CallSucceeds(k, v)
  \/ \E k \in 1..Len(paragraphs) : \E m \in ReverseMessages : CallFails(k, m)

SpecMask == InitMask /\ [][NextMask]_vars

\* the commands of the extension on one document: rosettaMark.translate,
\* the loop body of the batch command on a file that needs translation, and
\* rosettaMark.reverseTranslate on the translation of a one-paragraph document.
\* The documents have text lines, empty lines and a line that brings the
\* content to the edge of the size limit.
Commands == {"translate", "batch", "reverse"}
CommandDocs == SeqsUpTo({"a", LongLine, BlankLine}, MaxLines) \ {<<>>}

InitCommand ==
  /\ InitCommon
  /\ InitHost
  /\ command \in {[name |-> c, error |-> ""] : c \in Commands}
  /\ caller = IF command.name = "reverse" THEN "reverse" ELSE "incremental"
  /\ doc \in CommandDocs
  /\ prevDoc = doc
  /\ existing = IF command.name = "reverse" THEN <<SavedEntry(1, "text")>> ELSE <<>>
  /\ callerMapping = existing
  /\ paragraphs = <<>>
  /\ unit = <<>>
  /\ maxConcurrency \in 1..MaxConcurrency
  /\ hasSignal = TRUE
  /\ sourceLanguage = "en"

\* translateCommand: checkDocumentSize, then translateWithExisting
TranslateCommand ==
  /\ command.name = "translate" /\ pc = "idle"
  /\ IF checkDocumentSize(doc).valid
     THEN TranslateIncrementalCall
     ELSE /\ command' = [command EXCEPT !.error = "FILE_TOO_LARGE"]
          /\ pc' = "failed"
          /\ UNCHANGED <<doc, existing, maxConcurrency, hasSignal, aborted, caller,
                         currentParagraphs, prevParagraphs, paragraphsToTranslate,
                         resultParagraphs, outcome, paragraphs, tpState, batchStart,
                         results, tpError, unit, settleOrder, run, prevDoc, targetLanguage,
                         sourceLanguage, reverseResult, callerMapping, masking, hostVars>>

\* batchTranslateCommand, one file: translateWithExisting
BatchTranslateCommand ==
  /\ command.name = "batch" /\ pc = "idle"
  /\ TranslateIncrementalCall

\* reverseTranslateCommand: engine.reverseTranslate
ReverseTranslateCommand ==
  /\ command.name = "reverse" /\ pc = "idle"
  /\ ReverseTranslateCall

NextCommand ==
  \/ TranslateCommand
  \/ BatchTranslateCommand
  \/ ReverseTranslateCommand
  \/ \E k \in 1..Len(paragraphs) : \E v \in 1..NumVariants : CallSucceeds(k, v)
  \/ \E k \in 1..Len(paragraphs) : \E m \in ReverseMessages : CallFails(k, m)

SpecCommand == InitCommand /\ [][NextCommand]_vars

\* ------------------------------------------------------ derived notions
\* translateParagraphs with the values of rosettaMark.maxConcurrency that
\* getConfig passes on unchecked: negative, zero, the default and one above
\* the documented range 1-10; every provider call resolves or fails for good
MaxInFlight == 10
MaxIterations == 3
ConfiguredConcurrency == {-1, 0, DefaultMaxConcurrency, MaxInFlight + 1}
LimitLists == {[k \in 1..n |-> <<"a">>] : n \in {1, 2, MaxInFlight + 1}}

InitLimits ==
  /\ InitCommon
  /\ InitHost
  /\ command = NoCommand
  /\ caller = "direct"
  /\ doc = <<BlankLine>>
  /\ prevDoc = <<BlankLine>>
  /\ existing = <<>>
  /\ callerMapping = existing
  /\ paragraphs \in LimitLists
  /\ unit = [k \in 1..Len(paragraphs) |-> IdleUnit]
  /\ maxConcurrency \in ConfiguredConcurrency
  /\ hasSignal = FALSE
  /\ sourceLanguage = NoLanguage

\* Promise.all of an empty batch resolves without any call: the for loop of
\* translateParagraphs stores nothing and goes on with i += maxConcurrency
EmptyBatchResolves ==
  /\ tpState = "awaiting"
  /\ Batch(paragraphs, maxConcurrency, batchStart) = {}
  /\ batchStart > -MaxIterations
  /\ Apply(LoopFrom(paragraphs, maxConcurrency, aborted, batchStart + maxConcurrency,
                    StoreBatch(results, paragraphs, maxConcurrency, batchStart, unit),
                    unit),
           paragraphsToTranslate, resultParagraphs, unit)
  /\ UNCHANGED <<engineVars, aborted, currentParagraphs, paragraphsToTranslate, paragraphs>>

\* the provider answers the calls of this specification in index order
AnsweredBefore(k) == \A j \in 1..(k - 1) : Settled(unit[j])

NextLimits ==
  \/ TranslateParagraphsCall
  \/ \E k \in 1..Len(paragraphs) : AnsweredBefore(k) /\ CallSucceeds(k, 1)
  \/ \E k \in 1..Len(paragraphs) : \E m \in ReverseMessages :
       AnsweredBefore(k) /\ CallFails(k, m)
  \/ EmptyBatchResolves

\* every call that was started completes, and the loop keeps running
SpecLimits == InitLimits /\ [][NextLimits]_vars /\ WF_vars(NextLimits)

\* the FileSystemManager on its own: calls on two documents, one after the
\* other, in a workspace that is new or has a metadata.json of the old format
StoreContents == {<<"a">>, <<"b">>}
StoreMapping(content) ==
  <<ParagraphMapping(content, TranslateOutput(content, 1), calculateHash(content))>>

\* no pass is running
InitNoPass ==
  /\ InitCommon
  /\ command = NoCommand
  /\ caller = "none"
  /\ doc = <<BlankLine>>
  /\ prevDoc = <<BlankLine>>
  /\ existing = <<>>
  /\ callerMapping = existing
  /\ paragraphs = <<>>
  /\ unit = <<>>
  /\ maxConcurrency = DefaultMaxConcurrency
  /\ hasSignal = FALSE
  /\ sourceLanguage = NoLanguage

\* "a.md" translated by a version that wrote the old format
LegacyStore ==
  [source |-> [p \in SourcePaths |-> File(<<"a">>)],
   translation |-> [p \in SourcePaths |->
                      IF p = "a.md" THEN File(TranslateOutput(<<"a">>, 1)) ELSE NoFile],
   metadata |-> LegacyMetadataFile([NoHashes EXCEPT !["a.md"] = calculateHash(<<"a">>)])]

InitStore ==
  /\ InitNoPass
  /\ store \in {[NoStore EXCEPT !.source = [p \in SourcePaths |-> File(<<"a">>)]],
                LegacyStore}
  /\ ops = [p \in SourcePaths |-> NoOp(readMetadata(store.metadata)[p])]
  /\ currentTranslationController = 0
  /\ invocations = <<>>

\* a step of a call that is running
FsStep(p) ==
  \/ WriteTranslationFile(p)
  \/ ReadMetadata(p)
  \/ ReadExtendedMetadata(p)
  \/ WriteMetadataFile(p)

NextStore ==
  \/ \E p \in SourcePaths : \E name \in FsCalls : \E c \in StoreContents :
       Quiet /\ FsCall(p, name, c, TranslateOutput(c, 1), StoreMapping(c), "en")
  \/ \E p \in SourcePaths : FsStep(p)

SpecStore == InitStore /\ [][NextStore]_vars

\* two commands at once: the calls on the two documents run concurrently,
\* their steps between the awaits interleave in any order
NextRace ==
  \/ \E p \in SourcePaths : \E name \in FsCalls : \E c \in StoreContents :
       FsCall(p, name, c, TranslateOutput(c, 1), StoreMapping(c), "en")
  \/ \E p \in SourcePaths : FsStep(p)

SpecRace == InitStore /\ [][NextRace]_vars

\* the commands with what they persist: rosettaMark.translate and the batch
\* command's loop body on "a.md" in a workspace without translations, and
\* rosettaMark.reverseTranslate on its saved translation; the pass may be
\* cancelled, a provider call may fail for good
CommandPath == "a.md"

\* the workspace the command finds
StoreBefore ==
  IF command.name = "reverse"
  THEN LET source == joinParagraphs([j \in 1..Len(existing) |-> existing[j].sourceContent])
       IN [NoStore EXCEPT
             !.source[CommandPath] = File(source),
             !.translation[CommandPath] = File(prevDoc),
             !.metadata =
                MetadataFile(
                  ExtendedMetadata(
                    [NoHashes EXCEPT ![CommandPath] = calculateHash(source)],
                    [NoTranslations EXCEPT ![CommandPath] =
                       TranslationMetadata(calculateHash(source), CommandPath,
                                           sourceLanguage, existing)]))]
  ELSE [NoStore EXCEPT !.source[CommandPath] = File(doc)]

InitPersist ==
  /\ InitCommon
  /\ command \in {[name |-> c, error |-> ""] : c \in Commands}
  /\ caller = IF command.name = "reverse" THEN "reverse" ELSE "incremental"
  /\ doc \in CommandDocs
  /\ prevDoc = doc
  /\ existing = IF command.name = "reverse" THEN <<SavedEntry(1, "text")>> ELSE <<>>
  /\ callerMapping = existing
  /\ paragraphs = <<>>
  /\ unit = <<>>
  /\ maxConcurrency \in 1..MaxConcurrency
  /\ hasSignal = TRUE
  /\ sourceLanguage = "en"
  /\ store = StoreBefore
  /\ ops = [p \in SourcePaths |-> NoOp(readMetadata(store.metadata)[p])]
  /\ currentTranslationController = 0
  /\ invocations = <<>>

\* variant: the statements after the awaited engine call also run when it threw
EngineReturned_OrThrew(p) == p \in {"done", "failed"}

\* the statements after 'await engine...' in the try block run once the call
\* has returned; a rejection goes to the catch block
EngineReturned(p) == p = "done"

\* translateCommand and the batch loop after translateWithExisting:
\* saveTranslationWithMapping(sourcePath, content, translatedText, paragraphs)
SaveAfterTranslate ==
  /\ command.name \in {"translate", "batch"}
  /\ EngineReturned(pc)
  /\ ops[CommandPath].st = "idle"
  /\ FsCall(CommandPath, "saveTranslationWithMapping", doc, outcome.translatedText,
            resultParagraphs, NoLanguage)

\* reverseTranslateCommand after reverseTranslate: unless nothing was
\* modified, fs.writeFile(sourcePath, newSourceContent), then
\* updateParagraphMapping(translationPath, newParagraphs, newSourceContent)
SaveAfterReverse ==
  /\ command.name = "reverse"
  /\ EngineReturned(pc)
  /\ ops[CommandPath].st = "idle"
  /\ Len(reverseResult.modifiedIndices) # 0
  /\ store' = [store EXCEPT !.source[CommandPath] = File(reverseResult.newSourceContent)]
  /\ ops' = [ops EXCEPT ![CommandPath] =
               [NoOp(ops[CommandPath].recorded) EXCEPT
                  !.name = "updateParagraphMapping", !.st = "readExtended",
                  !.content = reverseResult.newSourceContent,
                  !.paragraphs = resultParagraphs]]
  /\ UNCHANGED <<passVars, masking, command, currentTranslationController, invocations>>

NextPersist ==
  \/ TranslateCommand
  \/ BatchTranslateCommand
  \/ ReverseTranslateCommand
  \/ \E k \in 1..Len(paragraphs) : \E v \in 1..NumVariants : CallSucceeds(k, v)
  \/ \E k \in 1..Len(paragraphs) : \E m \in ReverseMessages : CallFails(k, m)
  \/ Cancel
  \/ SaveAfterTranslate
  \/ SaveAfterReverse
  \/ WriteTranslationFile(CommandPath)
  \/ ReadExtendedMetadata(CommandPath)
  \/ WriteMetadataFile(CommandPath)

SpecPersist == InitPersist /\ [][NextPersist]_vars

\* the commands and the one AbortController variable of extension.ts: a
\* command may be invoked while another is between two of its awaits
MaxInvocations == 3
CancellableCommands == {"translate", "batch", "reverse", "selection"}

\* the signal of the controller is handed to the engine call by the
\* translate, batch and reverse commands; translateSelection calls
\* engine.translate(selectedText) without it
PassesSignal(name) == name # "selection"

InitControl ==
  /\ InitNoPass
  /\ store = NoStore
  /\ ops = [p \in SourcePaths |-> NoOp(NoHash)]
  /\ currentTranslationController = 0
  /\ invocations = <<>>

\* a command is invoked and runs up to the await of its engine call:
\* currentTranslationController = new AbortController()
Invoke(name) ==
  /\ Len(invocations) < MaxInvocations
  /\ invocations' = Append(invocations,
                           [name |-> name, st |-> "running", aborted |-> FALSE,
                            usesSignal |-> PassesSignal(name)])
  /\ currentTranslationController' = Len(invocations) + 1
  /\ UNCHANGED <<passVars, masking, command, store, ops>>

\* the engine call of invocation i returned or threw and the command ran to
\* its end: finally { currentTranslationController = null }
Complete(i) ==
  /\ invocations[i].st = "running"
  /\ invocations' = [invocations EXCEPT ![i].st = "finished"]
  /\ currentTranslationController' = 0
  /\ UNCHANGED <<passVars, masking, command, store, ops>>

\* rosettaMark.cancelTranslation
CancelTranslation ==
  /\ IF currentTranslationController # 0
     THEN /\ invocations' = [invocations EXCEPT ![currentTranslationController].aborted = TRUE]
          /\ currentTranslationController' = 0
     ELSE UNCHANGED <<invocations, currentTranslationController>>
  /\ UNCHANGED <<passVars, masking, command, store, ops>>

\* the cancel button of the progress notification of invocation i:
\* token.onCancellationRequested(() => currentTranslationController?.abort())
ProgressCancel(i) ==
  /\ invocations[i].st = "running"
  /\ invocations' = IF currentTranslationController # 0
                    THEN [invocations EXCEPT ![currentTranslationController].aborted = TRUE]
                    ELSE invocations
  /\ UNCHANGED <<passVars, masking, command, store, ops, currentTranslationController>>

NextControl ==
  \/ \E name \in CancellableCommands : Invoke(name)
  \/ \E i \in 1..Len(invocations) : Complete(i)
  \/ CancelTranslation
  \/ \E i \in 1..Len(invocations) : ProgressCancel(i)

SpecControl == InitControl /\ [][NextControl]_vars

\* units whose translate() call has started and not yet settled
InFlight == {k \in 1..Len(paragraphs) : unit[k].st \in {"inCall", "sleeping"}}

\* number of the batch of unit k
BatchOf(k) == (k - 1) \div maxConcurrency

\* the units that rejected, in the order they did
RejectedUnits == {k \in 1..Len(paragraphs) : unit[k].st = "rejected"}
FirstRejected ==
  settleOrder[CHOOSE p \in 1..Len(settleOrder) :
                /\ unit[settleOrder[p]].st = "rejected"
                /\ \A q \in 1..(p - 1) : unit[settleOrder[q]].st # "rejected"]

\* ---------------------------------------------------------------- claims
\* C1: translateParagraphs returns one result per input paragraph, in input
\* order: results[i] is what the translate call of paragraphs[i] returned,
\* whatever the order in which the calls completed.
C1_ResultsInInputOrder ==
  tpState = "returned" =>
    /\ Len(results) = Len(paragraphs)
    /\ \A k \in 1..Len(paragraphs) :
         /\ results[k].filled
         /\ results[k].translatedText = unit[k].text
         /\ \E v \in 1..NumVariants :
              results[k].translatedText = TranslateOutput(paragraphs[k], v)

\* a returned call in which a later-indexed unit completed before an earlier one
C1_Witness ==
  /\ tpState = "returned"
  /\ \E p, q \in 1..Len(settleOrder) : p < q /\ settleOrder[p] > settleOrder[q]

\* C2: at most maxConcurrency translate calls are in flight at any moment,
\* and a unit of a later batch has started only if every unit of every
\* earlier batch has finished.
C2_BoundedInFlight ==
  /\ Cardinality(InFlight) <= maxConcurrency
  /\ \A j, k \in 1..Len(paragraphs) :
       (BatchOf(j) < BatchOf(k) /\ unit[k].st # "idle") => unit[j].st = "resolved"

\* a later batch is running with as many calls in flight as the cap allows
C2_Witness ==
  /\ tpState = "awaiting"
  /\ batchStart > 0
  /\ Cardinality(InFlight) = maxConcurrency

\* C8: once the signal is aborted no provider call is started any more,
\* neither by a new batch nor by a retry after a backoff.
C8_NoAttemptAfterCancel ==
  [][aborted =>
       /\ Len(unit') = Len(unit)
       /\ \A k \in 1..Len(unit) : unit'[k].invoked = unit[k].invoked]_vars

\* after the abort a unit woke up from its backoff and did not call again
C8_Witness ==
  /\ aborted
  /\ \E k \in 1..Len(paragraphs) :
       /\ unit[k].st = "rejected"
       /\ unit[k].code = "CANCELLED"
       /\ unit[k].invoked >= 1
       /\ unit[k].attempt = unit[k].invoked

\* C9: if the signal was aborted, a translateParagraphs call on a non-empty
\* list ends with a TranslationError of code CANCELLED: it neither returns
\* results nor throws another code.
C9_CancelEndsCancelled ==
  (aborted /\ Len(paragraphs) > 0 /\ tpState \in {"returned", "thrown"}) =>
    (tpState = "thrown" /\ tpError = "CANCELLED")

\* C10: when a unit fails for good, translateParagraphs throws the error of
\* the first unit that failed, no unit of a later batch is ever started and
\* no results are returned.
C10_FailureAborts ==
  RejectedUnits # {} =>
    /\ tpState = "thrown"
    /\ pc = "failed"
    /\ tpError = unit[FirstRejected].code
    /\ \A k \in 1..Len(paragraphs) :
         BatchOf(k) > BatchOf(FirstRejected) => unit[k].st = "idle"

\* a unit failed, another unit of its batch finished afterwards, and a later
\* batch was never started
C10_Witness ==
  /\ tpState = "thrown"
  /\ \E p, q \in 1..Len(settleOrder) :
       /\ p < q
       /\ unit[settleOrder[p]].st = "rejected"
       /\ unit[settleOrder[q]].st = "resolved"
       /\ BatchOf(settleOrder[p]) = BatchOf(settleOrder[q])
  /\ \E k \in 1..Len(paragraphs) : unit[k].st = "idle"

\* ------------------------------------- derived notions, incremental pass
CurrentParagraphs == currentParagraphs
PrevParagraphs == prevParagraphs

\* the translateIncremental call of the current pass has been made
Called == pc # "idle"

\* c occurs in t as a run of consecutive lines
ContainsBlock(t, c) ==
  \E o \in 0..(Len(t) - Len(c)) : SubSeq(t, o + 1, o + Len(c)) = c

\* the current document differs from the previous one in the text of exactly
\* one text paragraph, at segment k
ChangedAt(k) ==
  /\ Len(CurrentParagraphs) = Len(PrevParagraphs)
  /\ k \in 1..Len(CurrentParagraphs)
  /\ CurrentParagraphs[k].type = "text" /\ PrevParagraphs[k].type = "text"
  /\ CurrentParagraphs[k].content # PrevParagraphs[k].content
  /\ \A j \in 1..Len(CurrentParagraphs) :
       j # k => /\ CurrentParagraphs[j].content = PrevParagraphs[j].content
                /\ CurrentParagraphs[j].type = PrevParagraphs[j].type

\* line number (1-based) of the marker closing a leading front-matter region
HasFrontmatter(lines) ==
  /\ Len(lines) >= 3
  /\ lines[1] = FrontmatterMarker
  /\ \E j \in 3..Len(lines) : lines[j] = FrontmatterMarker
FrontmatterEnd(lines) ==
  CHOOSE j \in 3..Len(lines) :
    /\ lines[j] = FrontmatterMarker
    /\ \A j2 \in 3..(j - 1) : lines[j2] # FrontmatterMarker

\* C3: a second pass on the same document with the mapping the first pass
\* returned issues no translate call and reports every segment as reused.
C3_RerunDispatchesNothing ==
  (run >= 2 /\ doc = prevDoc /\ Called) =>
    /\ pc = "done"
    /\ Len(paragraphs) = 0
    /\ outcome.changedParagraphs = 0
    /\ outcome.reusedParagraphs = Len(CurrentParagraphs)

\* the second pass on an unchanged document with text in it has returned
C3_Witness ==
  /\ run >= 2 /\ doc = prevDoc /\ pc = "done"
  /\ \E i \in 1..Len(CurrentParagraphs) : CurrentParagraphs[i].type = "text"

\* C4 as stated: after a change of exactly one text paragraph exactly one
\* translate call is dispatched, for that paragraph, and every other entry
\* keeps the translatedContent it had at that position in the prior mapping.
C4_Original ==
  \A k \in 1..Len(CurrentParagraphs) :
    (run >= 2 /\ Called /\ ChangedAt(k)) =>
      /\ paragraphs = <<CurrentParagraphs[k].content>>
      /\ pc = "done" =>
           \A j \in 1..Len(resultParagraphs) :
             j # k => resultParagraphs[j].translatedContent = existing[j].translatedContent

\* C4 amended: at most one call is dispatched, exactly one (for the changed
\* paragraph) unless the hash of the new text is already in the prior
\* mapping; every other entry has the translatedContent of the last prior
\* entry with its hash, which is the prior entry at its own position when no
\* later prior entry has that hash.
C4_OneChangeOneDispatch ==
  \A k \in 1..Len(CurrentParagraphs) :
    (run >= 2 /\ Called /\ ChangedAt(k)) =>
      /\ IF \E m \in 1..Len(existing) : existing[m].sourceHash = CurrentParagraphs[k].hash
         THEN paragraphs = <<>>
         ELSE paragraphs = <<CurrentParagraphs[k].content>>
      /\ pc = "done" =>
           \A j \in 1..Len(resultParagraphs) :
             j # k =>
               /\ \E m \in 1..Len(existing) :
                    /\ existing[m].sourceHash = CurrentParagraphs[j].hash
                    /\ \A m2 \in (m + 1)..Len(existing) :
                         existing[m2].sourceHash # CurrentParagraphs[j].hash
                    /\ resultParagraphs[j].translatedContent = existing[m].translatedContent
               /\ (\A m2 \in (j + 1)..Len(existing) :
                     existing[m2].sourceHash # existing[j].sourceHash)
                  => resultParagraphs[j].translatedContent = existing[j].translatedContent

\* one of two text paragraphs was changed to a new text and translated
C4_Witness ==
  /\ run >= 2 /\ pc = "done"
  /\ \E k \in 1..Len(CurrentParagraphs) : ChangedAt(k)
  /\ Len(paragraphs) = 1
  /\ Len(CurrentParagraphs) >= 2

\* C5: a code segment is never among the texts passed to translate, whatever
\* the prior mapping holds; its entry maps its content to itself and the
\* rejoined translated document contains the block unchanged.
C5_CodeNeverTranslated ==
  Called =>
    \A i \in 1..Len(CurrentParagraphs) :
      CurrentParagraphs[i].type = "code" =>
        /\ \A k \in 1..Len(paragraphs) : paragraphs[k] # CurrentParagraphs[i].content
        /\ \A n \in 1..Len(paragraphsToTranslate) : paragraphsToTranslate[n] # i - 1
        /\ resultParagraphs[i].sourceContent = CurrentParagraphs[i].content
        /\ resultParagraphs[i].translatedContent = CurrentParagraphs[i].content
        /\ pc = "done" => ContainsBlock(outcome.translatedText, CurrentParagraphs[i].content)

\* a pass has returned for a document with a code block whose hash the prior
\* mapping maps to another text
C5_Witness ==
  /\ pc = "done"
  /\ \E i \in 1..Len(CurrentParagraphs) :
       /\ CurrentParagraphs[i].type = "code"
       /\ \E m \in 1..Len(existing) :
            /\ existing[m].sourceHash = CurrentParagraphs[i].hash
            /\ existing[m].translatedContent # CurrentParagraphs[i].content

\* C6: a leading front-matter region is one segment of type frontmatter, is
\* not passed to translate and maps to itself.
C6_FrontmatterPassThrough ==
  (Called /\ HasFrontmatter(doc)) =>
    LET region == SubSeq(doc, 1, FrontmatterEnd(doc))
    IN /\ Len(CurrentParagraphs) >= 1
       /\ CurrentParagraphs[1].type = "frontmatter"
       /\ CurrentParagraphs[1].content = region
       /\ \A k \in 1..Len(paragraphs) : paragraphs[k] # region
       /\ resultParagraphs[1].translatedContent = resultParagraphs[1].sourceContent

\* C7: when a text content occurs at two positions and the prior mapping has
\* an entry with its hash, neither position is dispatched and both get the
\* translatedContent of that entry, wherever the entry stood.
C7_ReuseByContent ==
  Called =>
    \A p, q \in 1..Len(CurrentParagraphs) :
      (/\ p < q
       /\ CurrentParagraphs[p].type = "text"
       /\ CurrentParagraphs[q].type = "text"
       /\ CurrentParagraphs[p].content = CurrentParagraphs[q].content
       /\ \E m \in 1..Len(existing) : existing[m].sourceHash = CurrentParagraphs[p].hash)
      =>
       /\ \A n \in 1..Len(paragraphsToTranslate) :
            paragraphsToTranslate[n] # p - 1 /\ paragraphsToTranslate[n] # q - 1
       /\ \A k \in 1..Len(paragraphs) : paragraphs[k] # CurrentParagraphs[p].content
       /\ resultParagraphs[p].translatedContent = resultParagraphs[q].translatedContent
       /\ \E m \in 1..Len(existing) :
            /\ existing[m].sourceHash = CurrentParagraphs[p].hash
            /\ resultParagraphs[p].translatedContent = existing[m].translatedContent

\* both positions reused an entry that stood at the second position only
C7_Witness ==
  /\ pc = "done"
  /\ \E p, q \in 1..Len(CurrentParagraphs) :
       /\ p < q
       /\ CurrentParagraphs[p].type = "text"
       /\ CurrentParagraphs[p].content = CurrentParagraphs[q].content
       /\ Len(existing) >= q
       /\ existing[q].sourceHash = CurrentParagraphs[p].hash
       /\ existing[p].sourceHash # CurrentParagraphs[p].hash
       /\ resultParagraphs[p].translatedContent = existing[q].translatedContent

\* codes of the classifications withRetry retries
RetryableCodes == {"RATE_LIMIT", "NETWORK_ERROR", "UNKNOWN"}

\* the provider call of unit k fails in this step
FailsNow(k) == unit[k].st = "inCall" /\ unit'[k].st \in {"sleeping", "rejected"}

\* C11: withRetry invokes the operation at most DEFAULT_MAX_RETRIES (3) times.
\* A successful call resolves the unit with the result of that call; a
\* retryable failure before the third invocation is followed by a backoff
\* and, if the signal is not aborted, by one more invocation; the third
\* retryable failure rejects the unit with the classification of that failure.
C11_AtMostMaxAttempts ==
  [][\A k \in 1..Len(unit) :
       /\ Len(unit') = Len(unit)
       /\ unit'[k].invoked <= DEFAULT_MAX_RETRIES
       /\ (unit[k].st = "inCall" /\ unit'[k].st = "resolved") =>
            /\ unit'[k].invoked = unit[k].invoked
            /\ \E v \in 1..NumVariants : unit'[k].text = TranslateOutput(paragraphs[k], v)
       /\ (FailsNow(k) /\ unit'[k].code \in RetryableCodes) =>
            /\ \E m \in Messages : classifyError(m).code = unit'[k].code
            /\ unit[k].invoked < DEFAULT_MAX_RETRIES => unit'[k].st = "sleeping"
            /\ unit[k].invoked = DEFAULT_MAX_RETRIES => unit'[k].st = "rejected"
       /\ (unit[k].st = "sleeping" /\ unit'[k] # unit[k] /\ ~aborted) =>
            /\ unit'[k].st = "inCall"
            /\ unit'[k].invoked = unit[k].invoked + 1
       /\ unit[k].st \in {"resolved", "rejected"} => unit'[k] = unit[k]]_vars

\* a unit was rejected by its third retryable failure, another resolved on a retry
C11_Witness ==
  /\ \E k \in 1..Len(paragraphs) :
       /\ unit[k].st = "rejected"
       /\ unit[k].invoked = DEFAULT_MAX_RETRIES
       /\ unit[k].code \in RetryableCodes
  /\ \E k \in 1..Len(paragraphs) :
       /\ unit[k].st = "resolved"
       /\ unit[k].invoked > 1

\* C12: a failure classified AUTH_ERROR or CANCELLED rejects the unit in the
\* same step, whatever attempts remain: no backoff is waited and the
\* operation is not invoked again.
C12_FatalNeverRetried ==
  [][\A k \in 1..Len(unit) :
       /\ (FailsNow(k) /\ unit'[k].code \in {"AUTH_ERROR", "CANCELLED"}) =>
            /\ unit'[k].st = "rejected"
            /\ unit'[k].delay = 0
            /\ unit'[k].invoked = unit[k].invoked
       /\ (unit[k].st = "rejected" /\ unit[k].code \in {"AUTH_ERROR", "CANCELLED"}) =>
            (Len(unit') = Len(unit) /\ unit'[k] = unit[k])]_vars

\* the first call of a unit failed as AUTH_ERROR, that of another as CANCELLED
\* with the signal not aborted, and both were rejected at once
C12_Witness ==
  /\ ~aborted
  /\ \E j, k \in 1..Len(paragraphs) :
       /\ unit[j].st = "rejected" /\ unit[j].code = "AUTH_ERROR" /\ unit[j].invoked = 1
       /\ unit[k].st = "rejected" /\ unit[k].code = "CANCELLED" /\ unit[k].invoked = 1

\* C13: the backoff after failed attempt k (0-based) is 60000 ms when the
\* failure was a RATE_LIMIT, and 1000 ms after attempt 0, 2000 ms after
\* attempt 1 when it was a NETWORK_ERROR or UNKNOWN; a unit that is not
\* sleeping waits nothing, so no delay follows the final attempt.
C13_BackoffDelays ==
  \A k \in 1..Len(unit) :
    /\ unit[k].st = "sleeping" =>
         /\ unit[k].attempt < DEFAULT_MAX_RETRIES - 1
         /\ unit[k].code \in RetryableCodes
         /\ unit[k].code = "RATE_LIMIT" => unit[k].delay = 60000
         /\ (unit[k].code # "RATE_LIMIT" /\ unit[k].attempt = 0) => unit[k].delay = 1000
         /\ (unit[k].code # "RATE_LIMIT" /\ unit[k].attempt = 1) => unit[k].delay = 2000
    /\ unit[k].st # "sleeping" => unit[k].delay = 0

\* a unit waits 2000 ms after its second network failure while another waits
\* 60000 ms after a rate limit
C13_Witness ==
  \E j, k \in 1..Len(paragraphs) :
    /\ unit[j].st = "sleeping" /\ unit[j].code = "NETWORK_ERROR"
    /\ unit[j].attempt = 1 /\ unit[j].delay = 2000
    /\ unit[k].st = "sleeping" /\ unit[k].code = "RATE_LIMIT" /\ unit[k].delay = 60000

\* the calls onParagraphProgress received so far, in the order they were made:
\* a unit whose translate() resolved reports (globalIndex + 1, paragraphs.length)
RECURSIVE ProgressCallsFrom(_)
ProgressCallsFrom(p) ==
  IF p > Len(settleOrder) THEN <<>>
  ELSE LET k == settleOrder[p]
           i == BatchOf(k) * maxConcurrency
       IN (IF unit[k].st = "resolved"
           THEN << <<GlobalIndex(i, (k - 1) - i) + 1, Len(paragraphs)>> >>
           ELSE <<>>)
          \o ProgressCallsFrom(p + 1)
ProgressCalls == ProgressCallsFrom(1)

\* C14: the progress callback has fired once per completed unit with
\* (completedCount, totalCount): the p-th call reports p completed units of
\* Len(paragraphs), so the first arguments never decrease over time.
C14_ProgressMonotonic ==
  /\ Len(ProgressCalls) = Cardinality({k \in 1..Len(paragraphs) : unit[k].st = "resolved"})
  /\ \A p \in 1..Len(ProgressCalls) :
       /\ ProgressCalls[p][1] = p
       /\ ProgressCalls[p][2] = Len(paragraphs)
  /\ \A p, q \in 1..Len(ProgressCalls) :
       p < q => ProgressCalls[p][1] <= ProgressCalls[q][1]

\* ------------------------------------- derived notions, reverse translation
\* reverseTranslate has been called
ReverseCalled == caller = "reverse" /\ pc # "idle"

\* the translated document was not edited by hand
Unedited == doc = prevDoc

SavedTranslated == [j \in 1..Len(existing) |-> existing[j].translatedContent]
SavedSources == [j \in 1..Len(existing) |-> existing[j].sourceContent]

\* C15: reverseTranslate on the join of the saved translatedContent fields,
\* not edited, finds no modified index, issues no translate call, returns the
\* saved mapping as it is and the join of the saved sourceContent fields.
C15_UneditedIsUnmodified ==
  (ReverseCalled /\ Unedited) =>
    /\ pc = "done"
    /\ paragraphsToTranslate = <<>>
    /\ reverseResult.modifiedIndices = <<>>
    /\ Len(unit) = 0
    /\ resultParagraphs = existing
    /\ reverseResult.newSourceContent = joinParagraphs(SavedSources)

\* index i (0-based) is among the modifiedIndices reverseTranslate collected
IsDispatchedIndex(i) ==
  \E n \in 1..Len(paragraphsToTranslate) : paragraphsToTranslate[n] = i

NewSources == [j \in 1..Len(resultParagraphs) |-> resultParagraphs[j].sourceContent]

\* C16: position i is marked modified exactly when paragraph i of the edited
\* document differs from the translatedContent saved at i or nothing is saved
\* at i; the units handed to translateParagraphs are exactly these paragraphs,
\* one each, in index order; and an unmodified position keeps its saved
\* sourceContent, at the same position of the rebuilt source.
C16_ModifiedExactly ==
  ReverseCalled =>
    /\ \A i \in 0..(Len(currentParagraphs) - 1) :
         IsDispatchedIndex(i) <=>
           (\/ i >= Len(existing)
            \/ currentParagraphs[i + 1] # existing[i + 1].translatedContent)
    /\ \A n \in 1..Len(paragraphsToTranslate) :
         /\ paragraphsToTranslate[n] \in 0..(Len(currentParagraphs) - 1)
         /\ n > 1 => paragraphsToTranslate[n - 1] < paragraphsToTranslate[n]
    /\ Len(paragraphs) = Len(paragraphsToTranslate)
    /\ Len(unit) = Len(paragraphs)
    /\ \A n \in 1..Len(paragraphs) :
         paragraphs[n] = currentParagraphs[paragraphsToTranslate[n] + 1]
    /\ pc = "done" =>
         /\ \A i \in 0..(Len(existing) - 1) :
              ~IsDispatchedIndex(i) => NewSources[i + 1] = existing[i + 1].sourceContent
         /\ reverseResult.newSourceContent = joinParagraphs(NewSources)

\* paragraph 2 of 3 was edited: only index 1 was dispatched and the source
\* texts of paragraphs 1 and 3 are the saved ones
C16_Witness ==
  /\ ReverseCalled /\ pc = "done"
  /\ Len(existing) = 3 /\ Len(currentParagraphs) = 3
  /\ paragraphsToTranslate = <<1>>
  /\ currentParagraphs[2] # existing[2].translatedContent
  /\ NewSources[2] # existing[2].sourceContent
  /\ NewSources[1] = existing[1].sourceContent
  /\ NewSources[3] = existing[3].sourceContent

\* the language the system prompt of a translate() call names as the target:
\* getSystemPrompt builds it from config.targetLanguage
PromptTargetLanguage == targetLanguage

\* C17: every translate call issued by reverseTranslate names the supplied
\* sourceLanguage as the language to translate to.
C17_ReverseTargetsSourceLanguage ==
  (ReverseCalled /\ \E k \in 1..Len(unit) : unit[k].invoked > 0) =>
    PromptTargetLanguage = sourceLanguage

\* reverseTranslate returned after it dispatched at least one paragraph
ReverseRebuilt == ReverseCalled /\ pc = "done" /\ Len(paragraphsToTranslate) > 0

\* the entries of newParagraphs at the modified indices: the n-th dispatched
\* unit's translation, the edited paragraph and the hash of the translation
ModifiedEntriesRebuilt ==
  \A n \in 1..Len(paragraphsToTranslate) :
    LET i == paragraphsToTranslate[n]
    IN /\ i < Len(resultParagraphs)
       /\ resultParagraphs[i + 1].sourceContent = unit[n].text
       /\ \E v \in 1..NumVariants :
            unit[n].text = TranslateOutput(currentParagraphs[i + 1], v)
       /\ resultParagraphs[i + 1].translatedContent = currentParagraphs[i + 1]
       /\ resultParagraphs[i + 1].sourceHash =
            calculateHash(resultParagraphs[i + 1].sourceContent)

\* newSourceContent is the join of the sourceContent fields of newParagraphs,
\* which has one entry per saved entry and per paragraph of the edited document
SourceIsJoinOfMapping ==
  /\ Len(resultParagraphs) =
       (IF Len(existing) > Len(currentParagraphs)
        THEN Len(existing) ELSE Len(currentParagraphs))
  /\ reverseResult.newSourceContent = joinParagraphs(NewSources)

\* C18 as stated: after a reverse pass that dispatched something, the modified
\* indices hold the rebuilt entries, every other saved entry is carried over
\* unchanged, and newSourceContent is the join of all sourceContent fields.
C18_Original ==
  ReverseRebuilt =>
    /\ ModifiedEntriesRebuilt
    /\ \A i \in 0..(Len(existing) - 1) :
         ~IsDispatchedIndex(i) => resultParagraphs[i + 1] = existing[i + 1]
    /\ SourceIsJoinOfMapping

\* C18, amended: as above, but a saved entry that is not modified is carried
\* over with its sourceContent and translatedContent, and with its sourceHash
\* only if that is not empty: an empty sourceHash is replaced by the hash of
\* the entry's sourceContent.
C18_RebuiltMapping ==
  ReverseRebuilt =>
    /\ ModifiedEntriesRebuilt
    /\ \A i \in 0..(Len(existing) - 1) :
         ~IsDispatchedIndex(i) =>
           /\ resultParagraphs[i + 1].sourceContent = existing[i + 1].sourceContent
           /\ resultParagraphs[i + 1].translatedContent = existing[i + 1].translatedContent
           /\ resultParagraphs[i + 1].sourceHash =
                (IF existing[i + 1].sourceHash = <<>>
                 THEN calculateHash(existing[i + 1].sourceContent)
                 ELSE existing[i + 1].sourceHash)
    /\ SourceIsJoinOfMapping

\* a pass that rebuilt a saved entry, appended one past the end of the saved
\* mapping and carried over an entry that had been saved without sourceHash
C18_Witness ==
  /\ ReverseRebuilt
  /\ \E i \in 0..(Len(existing) - 1) : IsDispatchedIndex(i)
  /\ Len(resultParagraphs) > Len(existing)
  /\ \E i \in 0..(Len(existing) - 1) :
       /\ ~IsDispatchedIndex(i)
       /\ existing[i + 1].sourceHash = <<>>
       /\ resultParagraphs[i + 1].sourceHash # <<>>

\* the edited document is the saved translation with a paragraph break
\* inserted inside paragraph k (0-based): paragraph k is cut in two
BreakInsertedAt(k) ==
  /\ Len(currentParagraphs) = Len(existing) + 1
  /\ k < Len(existing)
  /\ \A j \in 1..k : currentParagraphs[j] = SavedTranslated[j]
  /\ currentParagraphs[k + 1] \o currentParagraphs[k + 2] = SavedTranslated[k + 1]
  /\ \A j \in (k + 3)..Len(currentParagraphs) : currentParagraphs[j] = SavedTranslated[j - 1]

\* the edited document is the saved translation with a new paragraph
\* inserted at position k (0-based)
ParagraphInsertedAt(k) ==
  /\ Len(currentParagraphs) = Len(existing) + 1
  /\ k <= Len(existing)
  /\ \A j \in 1..k : currentParagraphs[j] = SavedTranslated[j]
  /\ \A j \in (k + 2)..Len(currentParagraphs) : currentParagraphs[j] = SavedTranslated[j - 1]

\* consecutive paragraphs of the saved translation differ
NeighboursDiffer ==
  \A j \in 1..(Len(existing) - 1) : SavedTranslated[j] # SavedTranslated[j + 1]

\* paragraph i (0-based) of the edited document is not the one saved at i
DiffersFromSaved(i) ==
  i >= Len(existing) \/ currentParagraphs[i + 1] # SavedTranslated[i + 1]

\* C19 as stated: after a paragraph break or a new paragraph was inserted at
\* position k of a translation whose neighbouring paragraphs differ, every
\* index from k on is modified and dispatched.
C19_Original ==
  (ReverseCalled /\ NeighboursDiffer) =>
    \A k \in 0..Len(existing) :
      (BreakInsertedAt(k) \/ ParagraphInsertedAt(k)) =>
        \A i \in k..(Len(currentParagraphs) - 1) : IsDispatchedIndex(i)

\* C19, amended: after an inserted break every index from k + 2 on and index
\* k itself are dispatched, after an inserted paragraph every index above k;
\* the first index whose text is new (k + 1 after a break, k after a new
\* paragraph) is dispatched exactly if that text differs from the paragraph
\* saved at the same index.
C19_PositionalShift ==
  (ReverseCalled /\ NeighboursDiffer) =>
    \A k \in 0..Len(existing) :
      /\ BreakInsertedAt(k) =>
           /\ IsDispatchedIndex(k)
           /\ IsDispatchedIndex(k + 1) <=> DiffersFromSaved(k + 1)
           /\ \A i \in (k + 2)..(Len(currentParagraphs) - 1) : IsDispatchedIndex(i)
      /\ ParagraphInsertedAt(k) =>
           /\ IsDispatchedIndex(k) <=> DiffersFromSaved(k)
           /\ \A i \in (k + 1)..(Len(currentParagraphs) - 1) : IsDispatchedIndex(i)

\* a break inserted in the first of three paragraphs: the two paragraphs
\* after it are dispatched although their text is the saved one
C19_Witness ==
  /\ ReverseCalled /\ NeighboursDiffer
  /\ Len(existing) = 3
  /\ BreakInsertedAt(0)
  /\ currentParagraphs[3] = SavedTranslated[2]
  /\ currentParagraphs[4] = SavedTranslated[3]
  /\ paragraphsToTranslate = <<0, 1, 2, 3>>
  /\ pc = "done"
  /\ \A k \in 1..Len(unit) : unit[k].invoked = 1

\* translateIncremental returned
IncrementalDone == caller = "incremental" /\ pc = "done"

\* C20: the mapping a successful translateIncremental returns has one entry
\* per segment of the document, in document order, entry i with the hash of
\* segment i; the translation of the n-th dispatched unit stands at the index
\* of its segment; reusedParagraphs + changedParagraphs is the number of segments.
C20_OneEntryPerSegment ==
  IncrementalDone =>
    /\ Len(resultParagraphs) = Len(currentParagraphs)
    /\ \A i \in 1..Len(currentParagraphs) :
         resultParagraphs[i].sourceHash = currentParagraphs[i].hash
    /\ Len(unit) = Len(paragraphsToTranslate)
    /\ \A n \in 1..Len(paragraphsToTranslate) :
         LET index == paragraphsToTranslate[n]
         IN /\ index < Len(currentParagraphs)
            /\ paragraphs[n] = currentParagraphs[index + 1].content
            /\ unit[n].st = "resolved"
            /\ resultParagraphs[index + 1].translatedContent = unit[n].text
            /\ resultParagraphs[index + 1].sourceContent = currentParagraphs[index + 1].content
    /\ outcome.changedParagraphs = Len(paragraphsToTranslate)
    /\ outcome.reusedParagraphs + outcome.changedParagraphs = Len(currentParagraphs)

\* a pass that reused the entry of its first segment and dispatched the second
C20_Witness ==
  /\ IncrementalDone
  /\ Len(currentParagraphs) >= 2
  /\ paragraphsToTranslate = <<1>>
  /\ outcome.reusedParagraphs >= 1
  /\ resultParagraphs[2].translatedContent = unit[1].text

\* the mapping the caller holds: the one the current pass was given or, once
\* it has returned, the one it returned
HeldMappings == IF pc = "done" THEN {existing, resultParagraphs} ELSE {existing}

\* C21: in every mapping reached from no mapping by successful forward and
\* reverse passes, each entry's sourceHash is the hash of its sourceContent.
C21_HashOfSource ==
  \A mapping \in HeldMappings :
    \A i \in 1..Len(mapping) :
      mapping[i].sourceHash = calculateHash(mapping[i].sourceContent)

\* the third pass, a forward pass after a reverse pass that rebuilt an entry,
\* has returned a mapping that reuses the rebuilt entry
C21_Witness ==
  /\ caller = "incremental" /\ pc = "done" /\ run = 3
  /\ \E i \in 1..Len(resultParagraphs) :
       /\ i <= Len(existing)
       /\ resultParagraphs[i] = existing[i]
       /\ existing[i].translatedContent # TranslateOutput(existing[i].sourceContent, 1)
       /\ existing[i].translatedContent # TranslateOutput(existing[i].sourceContent, 2)
       /\ existing[i].translatedContent # existing[i].sourceContent

\* C22: translateIncremental and reverseTranslate leave the mapping they were
\* given as it was: before the call, while it runs and after it returned or
\* threw, the caller's array holds the entries that were passed.
C22_PriorMappingUnchanged == callerMapping = existing

\* a forward pass of a chain has returned a mapping that differs from the one
\* it was given: it pushed an entry object of that mapping and filled another
C22_Witness ==
  /\ pc = "done" /\ run = 3 /\ caller = "incremental"
  /\ Len(existing) > 0
  /\ Len(paragraphsToTranslate) > 0
  /\ \E i \in 1..Len(currentParagraphs) :
       SharedEntry(currentParagraphs[i], existing) > 0
  /\ resultParagraphs # existing

\* the usages the dispatched units came back with, added up field by field
RECURSIVE UnitUsageSum(_, _)
UnitUsageSum(field, k) ==
  IF k = 0 THEN 0
  ELSE UnitUsageSum(field, k - 1) + (IF unit[k].usage.present THEN unit[k].usage[field] ELSE 0)

DispatchedUsage ==
  TokenUsage(UnitUsageSum("prompt", Len(unit)), UnitUsageSum("completion", Len(unit)),
             UnitUsageSum("total", Len(unit)))

\* C23 as stated: the tokenUsage translateIncremental returns is the sum of the
\* usages of the dispatched units, and it is absent if none was dispatched.
C23_Original ==
  IncrementalDone =>
    outcome.tokenUsage = IF Len(paragraphsToTranslate) = 0 THEN NoUsage ELSE DispatchedUsage

\* C23: the tokenUsage translateIncremental returns is the componentwise sum
\* of the usages its dispatched units reported whenever the total of that sum
\* is positive, and it is absent otherwise: with no unit dispatched, and also
\* with units dispatched that reported no usage or a total of zero.
C23_UsageSum ==
  IncrementalDone =>
    outcome.tokenUsage = IF DispatchedUsage.total > 0 THEN DispatchedUsage ELSE NoUsage

\* two units were dispatched, both reported a usage, and the call returned
C23_Witness ==
  /\ IncrementalDone
  /\ Len(paragraphsToTranslate) = 2
  /\ \A k \in 1..Len(unit) : unit[k].usage.present /\ unit[k].usage.total > 0
  /\ outcome.tokenUsage.prompt # outcome.tokenUsage.completion
  /\ outcome.tokenUsage.present

\* --------------------------------------------- derived notions, parser
\* the document given to the split, and the split has been made
ParsedDocument == prevDoc
SplitDone == caller = "parser" /\ pc \in {"split", "joined"}
JoinDone == caller = "parser" /\ pc = "joined"

IsFence(line) == line = FenceLine
IsBlank(line) == line \in {BlankLine, WhitespaceLine}

\* the lines of a document that are not blank, in order
RECURSIVE NonBlankLines(_)
NonBlankLines(lines) ==
  IF Len(lines) = 0 THEN <<>>
  ELSE (IF IsBlank(lines[1]) THEN <<>> ELSE <<lines[1]>>) \o NonBlankLines(Tail(lines))

\* line i (1-based) is an opening fence: a fence line with an even number of
\* fence lines before it
FencesBefore(lines, i) == Cardinality({j \in 1..(i - 1) : IsFence(lines[j])})
IsOpeningFence(lines, i) == IsFence(lines[i]) /\ FencesBefore(lines, i) % 2 = 0
IsClosingFence(lines, i) == IsFence(lines[i]) /\ FencesBefore(lines, i) % 2 = 1

\* line i lies in a code block, fences included
InsideCode(lines, i) == IsFence(lines[i]) \/ FencesBefore(lines, i) % 2 = 1

\* the lines (1-based, first and last) a segment takes its content from,
\* counted back from its endLine
LastLineOf(p) == p.endLine + 1
FirstLineOf(p) == p.endLine + 2 - Len(p.content)

\* C24: joining the segments of a document with an empty line between them
\* gives the document back up to blank lines at segment boundaries: the
\* non-blank lines are the same in the same order, and every code segment,
\* its blank lines included, stands in the joined text as it stood in the
\* document, every line inside a code block being in such a segment.
C24_JoinKeepsLines ==
  JoinDone =>
    /\ NonBlankLines(doc) = NonBlankLines(ParsedDocument)
    /\ \A n \in 1..Len(currentParagraphs) :
         currentParagraphs[n].type = "code" =>
           /\ FirstLineOf(currentParagraphs[n]) >= 1
           /\ currentParagraphs[n].content =
                SubSeq(ParsedDocument, FirstLineOf(currentParagraphs[n]),
                       LastLineOf(currentParagraphs[n]))
           /\ ContainsBlock(doc, currentParagraphs[n].content)
    /\ \A i \in 1..Len(ParsedDocument) :
         InsideCode(ParsedDocument, i) =>
           \E n \in 1..Len(currentParagraphs) :
             /\ currentParagraphs[n].type = "code"
             /\ FirstLineOf(currentParagraphs[n]) <= i
             /\ i <= LastLineOf(currentParagraphs[n])

\* a document with text, a line of white space and a code block holding an
\* empty line has been split and joined, and the joined text differs from it
C24_Witness ==
  /\ JoinDone
  /\ doc # ParsedDocument
  /\ \E i \in 1..Len(ParsedDocument) : ParsedDocument[i] = WhitespaceLine
  /\ \E n \in 1..Len(currentParagraphs) : currentParagraphs[n].type = "text"
  /\ \E n \in 1..Len(currentParagraphs) :
       /\ currentParagraphs[n].type = "code"
       /\ \E j \in 1..Len(currentParagraphs[n].content) :
            currentParagraphs[n].content[j] = BlankLine

\* C25: the segments are cut by fences and blank lines: a code segment runs
\* from an opening fence to the next fence line (or to the end of the
\* document), whatever blank lines lie between, and every opening fence
\* starts one; a text segment is a maximal run of lines outside code blocks
\* that holds no blank line and no fence line; the segments come in document
\* order.
C25_Segmentation ==
  SplitDone =>
    LET D == ParsedDocument
        P == currentParagraphs
    IN /\ \A n \in 1..Len(P) :
            /\ 1 <= FirstLineOf(P[n]) /\ FirstLineOf(P[n]) <= LastLineOf(P[n])
            /\ LastLineOf(P[n]) <= Len(D)
            /\ P[n].content = SubSeq(D, FirstLineOf(P[n]), LastLineOf(P[n]))
            /\ n > 1 => LastLineOf(P[n - 1]) < FirstLineOf(P[n])
       /\ \A n \in 1..Len(P) :
            P[n].type = "code" =>
              /\ IsOpeningFence(D, FirstLineOf(P[n]))
              /\ \A i \in (FirstLineOf(P[n]) + 1)..(LastLineOf(P[n]) - 1) : ~IsFence(D[i])
              /\ \/ /\ LastLineOf(P[n]) > FirstLineOf(P[n])
                    /\ IsClosingFence(D, LastLineOf(P[n]))
                 \/ /\ LastLineOf(P[n]) = Len(D)
                    /\ ~IsFence(D[LastLineOf(P[n])]) \/ LastLineOf(P[n]) = FirstLineOf(P[n])
       /\ \A i \in 1..Len(D) :
            IsOpeningFence(D, i) =>
              \E n \in 1..Len(P) : P[n].type = "code" /\ FirstLineOf(P[n]) = i
       /\ \A n \in 1..Len(P) :
            P[n].type = "text" =>
              /\ \A j \in 1..Len(P[n].content) :
                   ~IsBlank(P[n].content[j]) /\ ~IsFence(P[n].content[j])
              /\ FirstLineOf(P[n]) > 1 =>
                   IsBlank(D[FirstLineOf(P[n]) - 1]) \/ IsFence(D[FirstLineOf(P[n]) - 1])
              /\ LastLineOf(P[n]) < Len(D) =>
                   IsBlank(D[LastLineOf(P[n]) + 1]) \/ IsFence(D[LastLineOf(P[n]) + 1])
       /\ \A i \in 1..Len(D) :
            ~InsideCode(D, i) /\ ~IsBlank(D[i]) =>
              \E n \in 1..Len(P) :
                /\ P[n].type = "text"
                /\ FirstLineOf(P[n]) <= i /\ i <= LastLineOf(P[n])

\* a document was split whose closed code block holds a blank line and
\* stands between two text segments
C25_Witness ==
  /\ SplitDone
  /\ Len(currentParagraphs) = 3
  /\ currentParagraphs[1].type = "text"
  /\ currentParagraphs[2].type = "code"
  /\ currentParagraphs[3].type = "text"
  /\ \E j \in 1..Len(currentParagraphs[2].content) :
       IsBlank(currentParagraphs[2].content[j])
  /\ IsClosingFence(ParsedDocument, LastLineOf(currentParagraphs[2]))

\* the opening fence of a document that is never closed (0: none)
UnclosedFence(lines) ==
  IF \E i \in 1..Len(lines) :
       IsOpeningFence(lines, i) /\ \A j \in (i + 1)..Len(lines) : ~IsFence(lines[j])
  THEN CHOOSE i \in 1..Len(lines) :
         IsOpeningFence(lines, i) /\ \A j \in (i + 1)..Len(lines) : ~IsFence(lines[j])
  ELSE 0

\* C26: when a fence is opened and never closed, the lines from that fence
\* to the end of the document are the last segment, and its type is code.
C26_UnclosedFenceIsCode ==
  SplitDone /\ UnclosedFence(ParsedDocument) > 0 =>
    /\ Len(currentParagraphs) > 0
    /\ currentParagraphs[Len(currentParagraphs)].type = "code"
    /\ currentParagraphs[Len(currentParagraphs)].content =
         SubSeq(ParsedDocument, UnclosedFence(ParsedDocument), Len(ParsedDocument))

\* a document was split that has text, then a fence that is never closed,
\* then a blank line and more text
C26_Witness ==
  /\ SplitDone
  /\ UnclosedFence(ParsedDocument) > 1
  /\ Len(ParsedDocument) >= UnclosedFence(ParsedDocument) + 2
  /\ IsBlank(ParsedDocument[UnclosedFence(ParsedDocument) + 1])
  /\ ~IsBlank(ParsedDocument[Len(ParsedDocument)])
  /\ Len(currentParagraphs) >= 2
  /\ currentParagraphs[1].type = "text"

\* ------------------------------------------- derived notions, extraction
Restored == caller = "extract" /\ masking.pc \in {"restored", "restoredTwice"}
RestoredTwice == caller = "extract" /\ masking.pc = "restoredTwice"

\* C28: restoring the masked text of a content with the map of its own
\* extraction gives the content back, whatever fenced blocks, inline code
\* spans, front matter and placeholder-like text it holds.
C28_RestoreUndoesExtract ==
  Restored => masking.restored = masking.content

\* C29: restoring once more, with the same extracted map, a text that has
\* been restored leaves it as it is.
C29_RestoreIdempotent ==
  RestoredTwice => masking.restoredTwice = masking.restored

\* the text of unit k has been given to a translate call
SentToTranslate(k) == unit[k].invoked > 0

\* the spans of a text the extraction would protect
ProtectedSpans(text) == extractTextForTranslation(Chars(text)).codeBlocks

\* C27: a text translateIncremental gives to a translate call has had its
\* inline code spans (and other protected spans) replaced by placeholders:
\* it holds no span the extraction would still protect.
C27_SentTextsAreMasked ==
  caller = "incremental" =>
    \A k \in 1..Len(paragraphs) :
      SentToTranslate(k) => ProtectedSpans(paragraphs[k]) = <<>>

\* the document of the command is over the size limit
Oversized == estimateTokens(ContentLength(doc)) > MaxTokens

\* C30: a command on a document whose estimated token count is over 100000
\* makes no translate call and, once run, has ended with FILE_TOO_LARGE.
C30_OversizedNeverDispatched ==
  command.name \in Commands /\ Oversized =>
    /\ \A k \in 1..Len(unit) : unit[k].invoked = 0
    /\ pc # "idle" => pc = "failed" /\ command.error = "FILE_TOO_LARGE"

\* C40: the line ranges of the segments are consistent: startLine <= endLine,
\* the ranges of consecutive segments are disjoint and increasing, and the
\* content of a segment is the lines startLine..endLine of the document.
C40_LineRanges ==
  SplitDone =>
    \A n \in 1..Len(currentParagraphs) :
      /\ currentParagraphs[n].startLine <= currentParagraphs[n].endLine
      /\ currentParagraphs[n].content =
           SubSeq(ParsedDocument, currentParagraphs[n].startLine + 1,
                  currentParagraphs[n].endLine + 1)
      /\ n > 1 => currentParagraphs[n - 1].endLine < currentParagraphs[n].startLine

\* C31: translateIncremental never returns with a dispatched segment whose
\* entry has an empty translatedContent: an empty answer of a translate call
\* ends the pass in an error instead.
C31_NoEmptyTranslationStored ==
  IncrementalDone =>
    \A n \in 1..Len(paragraphsToTranslate) :
      resultParagraphs[paragraphsToTranslate[n] + 1].translatedContent # <<>>

\* C35: in the mapping translateIncremental returns, two entries with the
\* same sourceHash have the same translatedContent.
C35_EqualHashEqualTranslation ==
  IncrementalDone =>
    \A i, j \in 1..Len(resultParagraphs) :
      resultParagraphs[i].sourceHash = resultParagraphs[j].sourceHash =>
        resultParagraphs[i].translatedContent = resultParagraphs[j].translatedContent

\* C33: for every paragraph list and every maxConcurrency the configuration
\* can hand to the engine (zero, negative and above 10 included),
\* translateParagraphs eventually returns or throws when every translate
\* call completes, and never has more than 10 calls in flight.
C33_ReturnsWithinLimit ==
  /\ [](Cardinality(InFlight) <= MaxInFlight)
  /\ <>(pc \in {"done", "failed"})

\* C36: after every reverseTranslate call that returned, newParagraphs has
\* exactly one entry per paragraph of the edited translated document, and
\* entry i holds paragraph i as its translatedContent, also when the edit
\* removed paragraphs.
C36_OneEntryPerEditedParagraph ==
  (ReverseCalled /\ pc = "done") =>
    /\ Len(resultParagraphs) = Len(currentParagraphs)
    /\ \A i \in 1..Len(currentParagraphs) :
         resultParagraphs[i].translatedContent = currentParagraphs[i]

\* every source text of mapping m is one non-empty block without blank
\* lines and without fence lines
PlainSources(m) ==
  \A i \in 1..Len(m) :
    /\ m[i].sourceContent # <<>>
    /\ \A n \in 1..Len(m[i].sourceContent) :
         ~IsBlank(m[i].sourceContent[n]) /\ ~IsFence(m[i].sourceContent[n])

\* translateIncremental was called on the newSourceContent of the reverse
\* pass before it, with the newParagraphs of that pass as existingParagraphs
ForwardAfterReverse == caller = "incremental" /\ run > 1 /\ pc # "idle"

\* C37: a forward pass on the newSourceContent and the newParagraphs of a
\* reverse pass dispatches no unit and returns the edited translated document
\* the reverse pass was given, provided every back-translated text is a single
\* non-empty block without blank lines, fence lines or leading or trailing
\* newlines.
C37_ReverseThenForwardStable ==
  (ForwardAfterReverse /\ PlainSources(existing)) =>
    /\ pc = "done"
    /\ paragraphsToTranslate = <<>>
    /\ AsDocument(outcome.translatedText) = AsDocument(prevDoc)

\* C32: after any sequence of saveTranslation, saveTranslationWithMapping and
\* updateParagraphMapping calls, needsTranslation(sourcePath, content) is false
\* exactly when the translation file exists and the hash recorded last for
\* sourcePath is hash(content): false right after that content was saved and
\* right after a reverse pass recorded the rebuilt source content.
C32_NeedsTranslationExactly ==
  Quiet =>
    \A p \in SourcePaths : \A c \in StoreContents :
      needsTranslation(store, p, c) =
        ~(store.translation[p].exists /\ ops[p].recorded = calculateHash(c))

\* a reverse pass recorded the rebuilt source of one document after its
\* translation was saved in the new format, a saveTranslation of another
\* content recorded the other document: neither needs translation
C32_Witness ==
  /\ Quiet
  /\ ops["a.md"].name = "updateParagraphMapping" /\ ops["a.md"].st = "returned"
  /\ store.metadata.translations["a.md"].present
  /\ ops["a.md"].recorded = calculateHash(<<"b">>)
  /\ ~needsTranslation(store, "a.md", <<"b">>)
  /\ needsTranslation(store, "a.md", <<"a">>)
  /\ ops["b.md"].name = "saveTranslation" /\ ops["b.md"].st = "returned"
  /\ ~needsTranslation(store, "b.md", ops["b.md"].content)

\* C38: no metadata update is lost when two operations that write metadata
\* for different documents interleave their read and write steps: once both
\* have returned, metadata.json holds for each document the hash its
\* operation recorded.
C38_NoLostUpdate ==
  Quiet =>
    \A p \in SourcePaths : readMetadata(store.metadata)[p] = ops[p].recorded

\* the pass of the command threw: a provider call failed for good, the
\* signal was aborted or the document is too large
PassFailed == command.name \in Commands /\ pc = "failed"

\* C34: if a forward or a reverse pass ends in failure or cancellation,
\* nothing is persisted: the translation file, the source file and
\* metadata.json are as the command found them, and no call on the store
\* was made.
C34_FailedPassPersistsNothing ==
  PassFailed => store = StoreBefore /\ ops[CommandPath].st = "idle"

\* a pass was cancelled after one of its paragraphs had been translated
C34_Witness ==
  /\ PassFailed
  /\ aborted /\ tpError = "CANCELLED"
  /\ \E k \in 1..Len(unit) : unit[k].st = "resolved"
  /\ store = StoreBefore

\* the invocations that are in progress and whose signal is not aborted
Running ==
  {i \in 1..Len(invocations) : invocations[i].st = "running" /\ ~invocations[i].aborted}

\* C39: whenever a translate, batch, reverse or selection command is in
\* progress and not yet cancelled, rosettaMark.cancelTranslation aborts the
\* signal its operation uses: the controller variable holds the controller of
\* that command and the operation was given its signal. With overlapping
\* commands the start, the completion or the cancellation of one does not
\* take the controller of another that is still running out of the variable.
C39_CancelReachesRunningCommand ==
  \A i \in Running : currentTranslationController = i /\ invocations[i].usesSignal

====
